---- MODULE Spec2Model ----
(***************************************************************************)
(* State-machine model of the dashboard front end:                         *)
(*   - the useWebSocket hook        (hooks/useWebSocket.ts)                *)
(*   - the Dashboard page           (app/page.tsx)                         *)
(*   - the OrderModal / TradePanel  (components/OrderModal.tsx,            *)
(*                                   components/TradePanel.tsx)            *)
(*   - the backtest page            (app/backtest/page.tsx)                *)
(*   - the AutoTraderPanel          (components/AutoTraderPanel.tsx)       *)
(* Each component has its own next-state relation and specification; the   *)
(* variables of the other components stay at their initial values.         *)
(***************************************************************************)
EXTENDS Integers, Sequences, FiniteSets, TLC

(***************************************************************************)
(* Bounds of the model.                                                    *)
(***************************************************************************)
MaxSockets == 2      \* sockets one hook instance may create in a run
MaxSent    == 1      \* frames sent and not yet taken by the server
MaxItems   == 2      \* entries of a stock list the server returns
MaxPending == 1      \* getPositions requests in flight
MaxRuns    == 1      \* runBacktest calls of one page instance
MaxPolls   == 2      \* status requests of one interval in flight together
MaxReloads == 2      \* getTopSignals requests of the style effect in flight
MaxLoads   == 2      \* loadData runs of the stock detail page in flight
MaxTimers  == 1      \* pending setSaved(false) timers of the settings page

(***************************************************************************)
(* Program constants.                                                      *)
(***************************************************************************)
StockSlice == 12     \* response.data.items.slice(0, 12)
SignalCap  == 10     \* [message, ...prev].slice(0, 10)

VARIABLES
  \* ---- useWebSocket
  mounted,       \* the consuming component is mounted (effect has run)
  socks,         \* socks[s] = readyState of the s-th socket the hook created
  wsRef,         \* wsRef.current: index into socks, 0 = null
  isConnected,   \* useState(false)
  lastMessage,   \* useState<WSMessage | null>(null)
  sent,          \* frames handed to send(), not yet taken by the server
  \* ---- Dashboard
  stocks,        \* useState<Quote[]>([])
  signals,       \* useState<SignalData[]>([])
  loading,       \* useState(true)
  initLoads,     \* the four loads of the mount effect: idle, pending or settled
  posPending,    \* getPositions requests issued after mount and still in flight
  \* ---- TradePanel
  showOrderModal, \* useState(false): the modal's isOpen prop
  orderSide,      \* useState("BUY"): the modal's side prop
  quote,          \* the quote prop (the dashboard's selectedStock)
  \* ---- OrderModal
  orderType,      \* useState("MARKET")
  quantity,       \* useState(1)
  price,          \* useState(0)
  isSubmitting,   \* useState(false)
  error,          \* useState<string | null>(null)
  inflight,       \* an onSubmit promise is pending
  \* ---- Dashboard: portfolio and toast
  positions,      \* useState<Position[]>([])
  balance,        \* useState({ total_asset: 0, ... })
  balPending,     \* getBalance requests issued after mount and still in flight
  orderSuccess,   \* useState<string | null>(null): the toast
  orderArgs,      \* the side argument of the handleOrderSubmit call in flight
  dirty,          \* a state update of the Dashboard awaits its render and effects
  \* ---- BacktestPage
  btMounted,      \* the page is mounted
  isRunning,      \* useState(false)
  progress,       \* useState(0)
  result,         \* useState<BacktestResult | null>(null)
  btRuns,         \* one record per runBacktest call of this page instance
  \* ---- AutoTraderPanel
  atMounted,      \* the panel is mounted
  atInterval,     \* the 5 s interval of the status effect is active
  atFetches,      \* autoTraderApi.getStatus requests in flight
  atStatus,       \* useState<AutoTraderStatus | null>(null)
  \* ---- Dashboard: trading style and signal reloads
  tradingStyle,   \* useState("DAYTRADING")
  sigPending,     \* styles of the style effect's getTopSignals requests in flight
  \* ---- StockDetailPage
  sdCode,         \* the code of the route, as the latest effect run saw it
  chartPeriod,    \* useState("D")
  sdQuote,        \* useState<Quote | null>(null)
  sdAnalysis,     \* useState<AnalysisResult | null>(null)
  sdIndicators,   \* useState<IndicatorData[]>([])
  sdChart,        \* useState<ChartData[]>([])
  sdNews,         \* useState<NewsItem[]>([])
  sdLoading,      \* useState(true)
  sdLoads,        \* the loadData runs in flight, each with its code, period and stage
  \* ---- SettingsPage
  stMounted,      \* the page is mounted
  weights,        \* settings.indicator_weights
  isSaving,       \* useState(false)
  saved,          \* useState(false)
  stError,        \* useState("")
  stLoading,      \* useState(true): isLoading
  stFetching,     \* the getAll request of the mount effect is in flight
  stSaves,        \* the weights of the updateAll requests in flight
  stTimers,       \* pending setSaved(false) timers
  \* ---- last handler that ran (observation only)
  ev

hookVars == <<mounted, socks, wsRef, isConnected, lastMessage, sent>>
portVars == <<positions, balance, balPending, orderSuccess, orderArgs>>
dashVars == <<stocks, signals, loading, initLoads, posPending, portVars>>
modalVars == <<showOrderModal, orderSide, quote, orderType, quantity, price,
               isSubmitting, error, inflight>>
btVars   == <<btMounted, isRunning, progress, result, btRuns>>
atVars   == <<atMounted, atInterval, atFetches, atStatus>>
sigVars  == <<tradingStyle, sigPending>>
sdVars   == <<sdCode, chartPeriod, sdQuote, sdAnalysis, sdIndicators, sdChart,
              sdNews, sdLoading, sdLoads>>
stVars   == <<stMounted, weights, isSaving, saved, stError, stLoading,
              stFetching, stSaves, stTimers>>
moreVars == <<sigVars, sdVars, stVars>>
pagesVars == <<btVars, atVars, moreVars>>
vars     == <<hookVars, dashVars, modalVars, dirty, pagesVars, ev>>

(***************************************************************************)
(* Generic helpers.                                                        *)
(***************************************************************************)
NoMessage == [type |-> "null"]      \* lastMessage === null

\* Array.prototype.slice(0, n)
Slice0(s, n) == SubSeq(s, 1, IF Len(s) < n THEN Len(s) ELSE n)

\* Array.prototype.findIndex: the first index whose element satisfies the
\* test, 0 when there is none (JavaScript's -1).
RECURSIVE FindIndexFrom(_, _, _)
FindIndexFrom(s, code, i) ==
  IF i > Len(s) THEN 0
  ELSE IF s[i].stock_code = code THEN i
  ELSE FindIndexFrom(s, code, i + 1)

FindIndex(s, code) == FindIndexFrom(s, code, 1)

\* Object spread { ...a, ...b }: the fields of both, b's value where both have it.
Spread(a, b) ==
  [f \in (DOMAIN a) \cup (DOMAIN b) |-> IF f \in DOMAIN b THEN b[f] ELSE a[f]]

\* All sequences over S of length at most n.
RemoveAt(q, k) == [j \in 1..(Len(q) - 1) |-> IF j < k THEN q[j] ELSE q[j + 1]]

SeqsUpTo(S, n) == UNION { [1..k -> S] : k \in 0..n }

(***************************************************************************)
(* useWebSocket                                                            *)
(***************************************************************************)
ReadyStates == {"CONNECTING", "OPEN", "CLOSING", "CLOSED"}

\* wsRef.current?.readyState === WebSocket.OPEN
RefOpen(sk, ref) == ref # 0 /\ sk[ref] = "OPEN"

\* JSON.stringify(data): the frame that carries data.
JsonStringify(data) == [wellFormed |-> TRUE, data |-> data]

\* WebSocket.close(): CONNECTING or OPEN becomes CLOSING, otherwise nothing.
SockClose(sk, s) ==
  IF s # 0 /\ sk[s] \in {"CONNECTING", "OPEN"}
  THEN [sk EXCEPT ![s] = "CLOSING"] ELSE sk

\* connect(): returns early when the current socket is OPEN; otherwise a new
\* socket is created (CONNECTING) and stored in wsRef.current.
ConnectCreates(sk, ref) == ~RefOpen(sk, ref)
ConnectSocks(sk, ref) ==
  IF ConnectCreates(sk, ref) THEN Append(sk, "CONNECTING") ELSE sk
ConnectRef(sk, ref) ==
  IF ConnectCreates(sk, ref) THEN Len(sk) + 1 ELSE ref

\* A variant that sends on any socket wsRef.current holds, open or not.
SendMessageAnyState(sk, ref, out, data) ==
  IF ref # 0
  THEN Append(out, [sock |-> ref, frame |-> JsonStringify(data)])
  ELSE out

\* sendMessage(data): send on wsRef.current when it is OPEN, else nothing.
SendMessage(sk, ref, out, data) ==
  IF RefOpen(sk, ref)
  THEN Append(out, [sock |-> ref, frame |-> JsonStringify(data)])
  ELSE out

\* JSON.parse(event.data): the value a well-formed frame carries; a frame
\* that is not JSON makes it throw.
JsonParses(frame) == frame.wellFormed
JsonParse(frame)  == frame.data

\* A variant of onmessage's try/catch that clears lastMessage on a parse error.
MessageAfterClearing(frame, last) ==
  IF JsonParses(frame) THEN JsonParse(frame) ELSE NoMessage

\* lastMessage after onmessage: the parsed message; a parse error is caught
\* before setLastMessage, so the previous value stays.
MessageAfter(frame, last) ==
  IF JsonParses(frame) THEN JsonParse(frame) ELSE last

\* An argument of subscribe / unsubscribe / subscribeChannel is a string or an
\* array of strings: [isArray |-> FALSE, val |-> "a"] or
\* [isArray |-> TRUE, val |-> <<"a", "b">>].
\* Array.isArray(x) ? x : [x]
AsList(x) == IF x.isArray THEN x.val ELSE <<x.val>>

SubscribeData(x)        == [type |-> "subscribe", stock_codes |-> AsList(x)]
UnsubscribeData(x)      == [type |-> "unsubscribe", stock_codes |-> AsList(x)]
SubscribeChannelData(x) == [type |-> "subscribe_channel", channels |-> AsList(x)]

\* The Dashboard's onConnect callback: subscribeChannel(["signals", "positions"])
OnConnectArg == [isArray |-> TRUE, val |-> <<"signals", "positions">>]
OnConnectSend(sk, ref, out) == SendMessage(sk, ref, out, SubscribeChannelData(OnConnectArg))

(***************************************************************************)
(* Dashboard: data                                                         *)
(***************************************************************************)
Codes      == {"005930", "000660"}   \* codes the server lists
AbsentCode == "999999"               \* a code no list carries
Prices     == {72500, 73000}
Changes    == {1500, 2000}

\* A Quote, reduced to the fields stock_code, price, change and prev_close.
Quotes == [stock_code : Codes, price : Prices, change : Changes, prev_close : {71000}]

\* message.data of a stock_update: stock_code and any subset of the other fields.
StockData ==
  UNION { {[stock_code |-> c]}
          \cup {[stock_code |-> c, price |-> p] : p \in Prices}
          \cup {[stock_code |-> c, change |-> d] : d \in Changes}
          \cup {[stock_code |-> c, price |-> p, change |-> d] : p \in Prices, d \in Changes}
        : c \in Codes \cup {AbsentCode} }

StockUpdateMsgs == {[type |-> "stock_update", data |-> d] : d \in StockData}

SignalAlertMsgs ==
  {[type |-> "signal_alert", stock_code |-> c, signal |-> "BUY"] : c \in Codes}

PositionUpdateMsg == [type |-> "position_update"]
OtherMsg          == [type |-> "pong"]

\* useState({ total_asset: 10000000, available_cash: 5000000, ... }), reduced
\* to two fields.
InitialBalance == [total_asset |-> 10000000, available_cash |-> 5000000]
NoToast  == [side |-> "none", outcome |-> "null"]   \* orderSuccess === null
NoOrder  == [side |-> "none"]   \* no handleOrderSubmit call is in flight
NoResult == "null"       \* the backtest page's result === null

\* The fallback list of loadStocks' catch branch.
MockStocks ==
  << [stock_code |-> "005930", price |-> 72500,  change |-> 1500,  prev_close |-> 71000],
     [stock_code |-> "000660", price |-> 178000, change |-> -2000, prev_close |-> 180000],
     [stock_code |-> "035720", price |-> 52300,  change |-> 800,   prev_close |-> 51500],
     [stock_code |-> "035420", price |-> 215000, change |-> 3500,  prev_close |-> 211500],
     [stock_code |-> "051910", price |-> 385000, change |-> -5000, prev_close |-> 390000],
     [stock_code |-> "006400", price |-> 425000, change |-> 8000,  prev_close |-> 417000] >>

(***************************************************************************)
(* Dashboard: handleMessage                                                *)
(***************************************************************************)
\* A variant that also recomputes change from the merged price and prev_close.
PatchStocksRecomputing(prev, data) ==
  LET idx == FindIndex(prev, data.stock_code)
      merged == Spread(prev[idx], data)
  IN  IF idx >= 1
      THEN [prev EXCEPT ![idx] = [merged EXCEPT !.change = merged.price - merged.prev_close]]
      ELSE prev

\* A variant that stores the message's data in place of the entry.
PatchStocksReplace(prev, data) ==
  LET idx == FindIndex(prev, data.stock_code)
  IN  IF idx >= 1 THEN [prev EXCEPT ![idx] = data] ELSE prev

\* setStocks((prev) => ...) of the stock_update branch.
PatchStocks(prev, data) ==
  LET idx == FindIndex(prev, data.stock_code)
  IN  IF idx >= 1
      THEN [prev EXCEPT ![idx] = Spread(prev[idx], data)]
      ELSE prev

\* A variant that prepends without truncating.
PushSignalNoSlice(prev, message) == <<message>> \o prev

\* setSignals((prev) => [message, ...prev].slice(0, 10))
PushSignal(prev, message) == Slice0(<<message>> \o prev, SignalCap)

handleMessage(message) ==
  CASE message.type = "stock_update" ->
         /\ stocks' = PatchStocks(stocks, message.data)
         /\ UNCHANGED <<signals, loading, initLoads, posPending>>
         /\ UNCHANGED portVars
    [] message.type = "signal_alert" ->
         /\ signals' = PushSignal(signals, message)
         /\ UNCHANGED <<stocks, loading, initLoads, posPending>>
         /\ UNCHANGED portVars
    [] message.type = "position_update" ->
         \* loadPositions(): one more getPositions request in flight
         /\ posPending < MaxPending
         /\ posPending' = posPending + 1
         /\ UNCHANGED <<stocks, signals, loading, initLoads>>
         /\ UNCHANGED portVars
    [] OTHER -> UNCHANGED dashVars

\* handleMessage reached through a socket that outlived the component: the
\* state setters do nothing, loadPositions() still issues its request.
handleMessageUnmounted(message) ==
  IF message.type = "position_update"
  THEN /\ posPending < MaxPending
       /\ posPending' = posPending + 1
       /\ UNCHANGED <<stocks, signals, loading, initLoads>>
       /\ UNCHANGED portVars
  ELSE UNCHANGED dashVars

(***************************************************************************)
(* Observation: the handler that ran last, its argument, and the           *)
(* readyState of wsRef.current when it started ("none" for null).          *)
(***************************************************************************)
CurReadyState == IF wsRef = 0 THEN "none" ELSE socks[wsRef]
Ev(op, a) == [op |-> op, arg |-> a, rs |-> CurReadyState]

(***************************************************************************)
(* useWebSocket: actions                                                   *)
(***************************************************************************)
\* What the hook's callers pass to subscribe / unsubscribe / subscribeChannel.
CodeArgs ==
  { [isArray |-> FALSE, val |-> "005930"],
    [isArray |-> TRUE,  val |-> <<"005930", "000660">>] }
ChannelArgs ==
  { [isArray |-> FALSE, val |-> "signals"],
    [isArray |-> TRUE,  val |-> <<"signals", "positions">>] }

\* Frames the server may push.
WellFormedFrames(msgs) == {JsonStringify(m) : m \in msgs}
MalformedFrame == [wellFormed |-> FALSE, data |-> NoMessage]

\* A send needs room in the bounded channel to the server.
SendRoom(sk, ref) == RefOpen(sk, ref) => Len(sent) < MaxSent

\* The mount effect: if (autoConnect) connect()   (autoConnect defaults to true).
\* A mount starts a fresh hook instance; sockets of an earlier instance can no
\* longer reach its state.
HookMount ==
  /\ ~mounted
  /\ mounted' = TRUE
  /\ socks' = ConnectSocks(<<>>, 0)
  /\ wsRef' = ConnectRef(<<>>, 0)
  /\ isConnected' = FALSE
  /\ lastMessage' = NoMessage
  /\ UNCHANGED sent
  /\ ev' = Ev("mount", 0)
  /\ UNCHANGED modalVars
  /\ UNCHANGED dashVars
  /\ dirty' = FALSE
  /\ UNCHANGED pagesVars

\* connect() called by the consumer.
Connect ==
  /\ mounted
  /\ ConnectCreates(socks, wsRef) => Len(socks) < MaxSockets
  /\ socks' = ConnectSocks(socks, wsRef)
  /\ wsRef' = ConnectRef(socks, wsRef)
  /\ UNCHANGED <<mounted, isConnected, lastMessage, sent>>
  /\ ev' = Ev("connect", 0)
  /\ UNCHANGED modalVars
  /\ UNCHANGED dashVars
  /\ UNCHANGED dirty
  /\ UNCHANGED pagesVars

\* disconnect() called by the consumer.
Disconnect ==
  /\ mounted
  /\ socks' = SockClose(socks, wsRef)
  /\ wsRef' = 0
  /\ isConnected' = FALSE
  /\ UNCHANGED <<mounted, lastMessage, sent>>
  /\ ev' = Ev("disconnect", 0)
  /\ UNCHANGED modalVars
  /\ UNCHANGED dashVars
  /\ dirty' = (dirty \/ isConnected)
  /\ UNCHANGED pagesVars

\* The effect runs again because connect changed identity (its dependencies
\* onMessage, onConnect, onDisconnect changed): cleanup disconnect(), then
\* connect().
EffectRerun ==
  /\ mounted
  /\ Len(socks) < MaxSockets
  /\ socks' = ConnectSocks(SockClose(socks, wsRef), 0)
  /\ wsRef' = ConnectRef(SockClose(socks, wsRef), 0)
  /\ isConnected' = FALSE
  /\ UNCHANGED <<mounted, lastMessage, sent>>
  /\ ev' = Ev("rerun", 0)
  /\ UNCHANGED modalVars
  /\ UNCHANGED dashVars
  /\ dirty' = isConnected
  /\ UNCHANGED pagesVars

\* A render of the Dashboard after one of its state updates: the inline
\* onConnect is a new function, so connect has a new identity and the hook's
\* effect runs again.
DashRender ==
  /\ dirty
  /\ EffectRerun

\* The component unmounts: the effect cleanup calls disconnect().
HookUnmount ==
  /\ mounted
  /\ mounted' = FALSE
  /\ socks' = SockClose(socks, wsRef)
  /\ wsRef' = 0
  /\ isConnected' = FALSE
  /\ UNCHANGED <<lastMessage, sent>>
  /\ ev' = Ev("unmount", 0)
  /\ UNCHANGED modalVars
  /\ UNCHANGED dashVars
  /\ dirty' = FALSE
  /\ UNCHANGED pagesVars

\* ws.onopen of socket s: setIsConnected(true); onConnect?.()
\* (state setters of an unmounted component do nothing).
OnOpen(s) ==
  /\ s \in DOMAIN socks
  /\ socks[s] = "CONNECTING"
  /\ socks' = [socks EXCEPT ![s] = "OPEN"]
  /\ SendRoom(socks', wsRef)
  /\ isConnected' = (IF mounted THEN TRUE ELSE isConnected)
  /\ sent' = OnConnectSend(socks', wsRef, sent)
  /\ UNCHANGED <<mounted, wsRef, lastMessage>>
  /\ ev' = Ev("open", s)
  /\ UNCHANGED modalVars
  /\ UNCHANGED dashVars
  /\ dirty' = (dirty \/ (mounted /\ ~isConnected))
  /\ UNCHANGED pagesVars

\* The peer starts the closing handshake on an open socket: readyState
\* becomes CLOSING; no handler runs yet.
PeerClosing(s) ==
  /\ s \in DOMAIN socks
  /\ socks[s] = "OPEN"
  /\ socks' = [socks EXCEPT ![s] = "CLOSING"]
  /\ UNCHANGED <<mounted, wsRef, isConnected, lastMessage, sent>>
  /\ ev' = Ev("closing", s)
  /\ UNCHANGED modalVars
  /\ UNCHANGED dashVars
  /\ UNCHANGED dirty
  /\ UNCHANGED pagesVars

\* Socket s closes (failed connect, lost connection, finished handshake):
\* ws.onclose: setIsConnected(false); onDisconnect?.()   (onerror only logs).
OnClose(s) ==
  /\ s \in DOMAIN socks
  /\ socks[s] # "CLOSED"
  /\ socks' = [socks EXCEPT ![s] = "CLOSED"]
  /\ isConnected' = (IF mounted THEN FALSE ELSE isConnected)
  /\ UNCHANGED <<mounted, wsRef, lastMessage, sent>>
  /\ ev' = Ev("close", s)
  /\ UNCHANGED modalVars
  /\ UNCHANGED dashVars
  /\ dirty' = (dirty \/ (mounted /\ isConnected))
  /\ UNCHANGED pagesVars

\* subscribe(stockCodes)
Subscribe(x) ==
  /\ mounted
  /\ SendRoom(socks, wsRef)
  /\ sent' = SendMessage(socks, wsRef, sent, SubscribeData(x))
  /\ UNCHANGED <<mounted, socks, wsRef, isConnected, lastMessage>>
  /\ ev' = Ev("subscribe", x)
  /\ UNCHANGED modalVars
  /\ UNCHANGED dashVars
  /\ UNCHANGED dirty
  /\ UNCHANGED pagesVars

\* unsubscribe(stockCodes)
Unsubscribe(x) ==
  /\ mounted
  /\ SendRoom(socks, wsRef)
  /\ sent' = SendMessage(socks, wsRef, sent, UnsubscribeData(x))
  /\ UNCHANGED <<mounted, socks, wsRef, isConnected, lastMessage>>
  /\ ev' = Ev("unsubscribe", x)
  /\ UNCHANGED modalVars
  /\ UNCHANGED dashVars
  /\ UNCHANGED dirty
  /\ UNCHANGED pagesVars

\* subscribeChannel(channels)
SubscribeChannel(x) ==
  /\ mounted
  /\ SendRoom(socks, wsRef)
  /\ sent' = SendMessage(socks, wsRef, sent, SubscribeChannelData(x))
  /\ UNCHANGED <<mounted, socks, wsRef, isConnected, lastMessage>>
  /\ ev' = Ev("subscribeChannel", x)
  /\ UNCHANGED modalVars
  /\ UNCHANGED dashVars
  /\ UNCHANGED dirty
  /\ UNCHANGED pagesVars

\* The server takes the oldest frame sent to it.
ServerTake ==
  /\ sent # <<>>
  /\ sent' = Tail(sent)
  /\ UNCHANGED <<mounted, socks, wsRef, isConnected, lastMessage>>
  /\ ev' = Ev("take", Head(sent).sock)
  /\ UNCHANGED modalVars
  /\ UNCHANGED dashVars
  /\ UNCHANGED dirty
  /\ UNCHANGED pagesVars

\* ws.onmessage of socket s with event.data = frame: parse, setLastMessage,
\* onMessage?.(message); a parse error is caught and logged.
OnMessage(s, frame) ==
  /\ s \in DOMAIN socks
  /\ socks[s] = "OPEN"
  /\ lastMessage' = (IF mounted THEN MessageAfter(frame, lastMessage) ELSE lastMessage)
  /\ IF JsonParses(frame)
     THEN IF mounted THEN handleMessage(JsonParse(frame))
                     ELSE handleMessageUnmounted(JsonParse(frame))
     ELSE UNCHANGED dashVars
  /\ UNCHANGED <<mounted, socks, wsRef, isConnected, sent>>
  /\ ev' = [op |-> "message", arg |-> frame, rs |-> CurReadyState, sock |-> s]
  /\ UNCHANGED modalVars
  /\ dirty' = (dirty \/ (mounted /\ JsonParses(frame)))
  /\ UNCHANGED pagesVars

(***************************************************************************)
(* Dashboard: the mount effect and loadStocks                              *)
(***************************************************************************)
LoadNames == {"stocks", "positions", "balance", "signals"}

\* A variant where init continues as soon as one load settled.
LoadingAfterAny(l, name) == FALSE

\* One load of Promise.all([...]) settles; when it is the last one, init
\* continues with setLoading(false).
Settle(l, name)       == [l EXCEPT ![name] = "settled"]
AllSettled(l)         == \A n \in LoadNames : l[n] = "settled"
LoadingAfter(l, name) == IF AllSettled(Settle(l, name)) THEN FALSE ELSE loading

\* init(): setLoading(true); Promise.all([loadStocks(), loadPositions(),
\* loadBalance(), loadSignals()])
InitEffect ==
  /\ mounted
  /\ \A n \in LoadNames : initLoads[n] = "idle"
  /\ loading' = TRUE
  /\ initLoads' = [n \in LoadNames |-> "pending"]
  /\ UNCHANGED <<stocks, signals, posPending>>
  /\ UNCHANGED portVars
  /\ UNCHANGED hookVars
  /\ ev' = Ev("init", 0)
  /\ UNCHANGED modalVars
  /\ dirty' = (dirty \/ ~loading)
  /\ UNCHANGED pagesVars

\* Lists stocksApi.getAll() may return in response.data.items.
ServerItems == SeqsUpTo(Quotes, MaxItems)

\* Of these, the lists of one quote at the price of the first fetch.
SingleItems ==
  {l \in ServerItems : Len(l) = 1 /\ l[1].price = 72500 /\ l[1].change = 1500}

RECURSIVE MapCode(_)
MapCode(items) ==
  IF items = <<>> THEN <<>> ELSE <<Head(items).stock_code>> \o MapCode(Tail(items))

\* loadStocks: the request resolves with success = true.
LoadStocksOk(items) ==
  /\ initLoads["stocks"] = "pending"
  /\ SendRoom(socks, wsRef)
  /\ stocks' = Slice0(items, StockSlice)
  /\ sent' = SendMessage(socks, wsRef, sent,
                SubscribeData([isArray |-> TRUE, val |-> MapCode(Slice0(items, StockSlice))]))
  /\ initLoads' = Settle(initLoads, "stocks")
  /\ loading' = LoadingAfter(initLoads, "stocks")
  /\ UNCHANGED <<signals, posPending>>
  /\ UNCHANGED portVars
  /\ UNCHANGED <<mounted, socks, wsRef, isConnected, lastMessage>>
  /\ ev' = Ev("loadStocksOk", items)
  /\ UNCHANGED modalVars
  /\ dirty' = TRUE
  /\ UNCHANGED pagesVars

\* loadStocks: the request resolves with success = false: nothing is stored.
LoadStocksNoSuccess ==
  /\ initLoads["stocks"] = "pending"
  /\ initLoads' = Settle(initLoads, "stocks")
  /\ loading' = LoadingAfter(initLoads, "stocks")
  /\ UNCHANGED <<stocks, signals, posPending>>
  /\ UNCHANGED portVars
  /\ UNCHANGED hookVars
  /\ ev' = Ev("loadStocksNoSuccess", 0)
  /\ UNCHANGED modalVars
  /\ dirty' = (dirty \/ loading' # loading)
  /\ UNCHANGED pagesVars

\* loadStocks: the request rejects: the catch branch stores the mock list.
LoadStocksFail ==
  /\ initLoads["stocks"] = "pending"
  /\ stocks' = MockStocks
  /\ initLoads' = Settle(initLoads, "stocks")
  /\ loading' = LoadingAfter(initLoads, "stocks")
  /\ UNCHANGED <<signals, posPending>>
  /\ UNCHANGED portVars
  /\ UNCHANGED hookVars
  /\ ev' = Ev("loadStocksFail", 0)
  /\ UNCHANGED modalVars
  /\ dirty' = TRUE
  /\ UNCHANGED pagesVars

(***************************************************************************)
(* Dashboard: loadPositions and loadBalance                                *)
(***************************************************************************)
\* Items portfolioApi.getPositions() may list.
PositionItems ==
  { [stock_code |-> "005930", quantity |-> 50, avg_price |-> 71000, current_price |-> 72500],
    [stock_code |-> "000660", quantity |-> 10, avg_price |-> 180000, current_price |-> 178000] }

\* Its responses: success or not, data.items present or not.
PositionResponses ==
  { [success |-> ok, hasItems |-> TRUE, items |-> l] :
       ok \in BOOLEAN, l \in SeqsUpTo(PositionItems, 1) }
  \cup { [success |-> TRUE, hasItems |-> FALSE, items |-> <<>>] }

\* response.data.items || []
ItemsOrEmpty(resp) == IF resp.hasItems THEN resp.items ELSE <<>>

\* A variant of the mapping that appends to the list it is given.
MapPositionsAppending(items, prev) ==
  prev \o [k \in DOMAIN items |->
            [position_id   |-> items[k].stock_code,
             stock_code    |-> items[k].stock_code,
             quantity      |-> items[k].quantity,
             entry_price   |-> items[k].avg_price,
             current_price |-> items[k].current_price,
             status        |-> "OPEN"]]

\* (response.data.items || []).map((p) => ({ position_id: p.stock_code, ... })):
\* the list setPositions receives; the previous list plays no part.
MapPositions(items, prev) ==
  [k \in DOMAIN items |->
     [position_id   |-> items[k].stock_code,
      stock_code    |-> items[k].stock_code,
      quantity      |-> items[k].quantity,
      entry_price   |-> items[k].avg_price,
      current_price |-> items[k].current_price,
      status        |-> "OPEN"]]

\* The fallback list of loadPositions' catch branch.
MockPositions ==
  << [position_id |-> "1", stock_code |-> "005930", quantity |-> 50,
      entry_price |-> 71000, current_price |-> 72500, status |-> "OPEN"] >>

\* Which loadPositions call settles: the one of the mount effect ("init") or
\* one issued later by a position_update or an order ("later").
LoadSources == {"init", "later"}

PositionsSettle(src) ==
  IF src = "init"
  THEN /\ initLoads["positions"] = "pending"
       /\ initLoads' = Settle(initLoads, "positions")
       /\ loading' = LoadingAfter(initLoads, "positions")
       /\ UNCHANGED posPending
  ELSE /\ posPending > 0
       /\ posPending' = posPending - 1
       /\ UNCHANGED <<initLoads, loading>>

\* loadPositions: the request resolves; setPositions(mapped) if success.
LoadPositionsOk(src, resp) ==
  /\ PositionsSettle(src)
  /\ positions' = (IF resp.success
                   THEN MapPositions(ItemsOrEmpty(resp), positions)
                   ELSE positions)
  /\ UNCHANGED <<stocks, signals, balance, balPending, orderSuccess, orderArgs>>
  /\ dirty' = (dirty \/ resp.success \/ loading' # loading)
  /\ UNCHANGED <<hookVars, modalVars, pagesVars>>
  /\ ev' = Ev("loadPositionsOk", resp)

\* loadPositions: the request rejects; the catch branch stores the mock list.
LoadPositionsFail(src) ==
  /\ PositionsSettle(src)
  /\ positions' = MockPositions
  /\ UNCHANGED <<stocks, signals, balance, balPending, orderSuccess, orderArgs>>
  /\ dirty' = TRUE
  /\ UNCHANGED <<hookVars, modalVars, pagesVars>>
  /\ ev' = Ev("loadPositionsFail", src)

\* Data portfolioApi.getBalance() may return.
Balances ==
  { [total_asset |-> 10000000, available_cash |-> 5000000],
    [total_asset |-> 10150000, available_cash |-> 1375000] }
BalanceResponses == [success : BOOLEAN, data : Balances]

BalanceSettle(src) ==
  IF src = "init"
  THEN /\ initLoads["balance"] = "pending"
       /\ initLoads' = Settle(initLoads, "balance")
       /\ loading' = LoadingAfter(initLoads, "balance")
       /\ UNCHANGED balPending
  ELSE /\ balPending > 0
       /\ balPending' = balPending - 1
       /\ UNCHANGED <<initLoads, loading>>

\* loadBalance: the request resolves; setBalance(response.data) if success.
LoadBalanceOk(src, resp) ==
  /\ BalanceSettle(src)
  /\ balance' = (IF resp.success THEN resp.data ELSE balance)
  /\ UNCHANGED <<stocks, signals, posPending, positions, orderSuccess, orderArgs>>
  /\ dirty' = (dirty \/ resp.success \/ loading' # loading)
  /\ UNCHANGED <<hookVars, modalVars, pagesVars>>
  /\ ev' = Ev("loadBalanceOk", resp)

\* loadBalance: the request rejects; the catch branch only logs.
LoadBalanceFail(src) ==
  /\ BalanceSettle(src)
  /\ UNCHANGED <<stocks, signals, posPending, positions, balance, orderSuccess, orderArgs>>
  /\ dirty' = (dirty \/ loading' # loading)
  /\ UNCHANGED <<hookVars, modalVars, pagesVars>>
  /\ ev' = Ev("loadBalanceFail", src)

(***************************************************************************)
(* Dashboard: loadSignals and the trading style effect                     *)
(***************************************************************************)
TradingStyles == {"SCALPING", "DAYTRADING", "SWING"}
DefaultStyle  == "DAYTRADING"

\* The code the server ranks first under each style: the answers to two
\* styles differ.
StyleCode(style) ==
  CASE style = "SCALPING"   -> "000660"
    [] style = "DAYTRADING" -> "005930"
    [] OTHER                -> "035420"

\* response.data of signalsApi.getTopSignals(style, 10): n entries.
TopSignals(style, n) ==
  [i \in 1..n |-> [stock_code |-> StyleCode(style), signal |-> "BUY",
                   total_score |-> 80]]

\* Lengths of response.data: none, one, the requested limit, one more.
SignalLens == {0, 1, SignalCap, SignalCap + 1}

\* What a resolved getTopSignals carries.
SignalResponses == [success : BOOLEAN, hasData : BOOLEAN, len : SignalLens]

\* response.data.map((s) => ({ stock_code, ..., score: s.total_score, ... }))
MapSignals(data) ==
  [i \in 1..Len(data) |-> [stock_code |-> data[i].stock_code,
                           signal |-> data[i].signal,
                           score |-> data[i].total_score]]

\* A variant that drops the answer to a style that is no longer selected.
SignalsAfterCurrentOnly(resp, style, prev) ==
  IF resp.success /\ resp.hasData /\ style = tradingStyle
    THEN MapSignals(TopSignals(style, resp.len))
    ELSE prev

\* if (response.success && response.data) setSignals(mappedSignals)
SignalsAfter(resp, style, prev) ==
  IF resp.success /\ resp.hasData
    THEN MapSignals(TopSignals(style, resp.len))
    ELSE prev

\* The two demo signals of the catch branch.
FallbackSignals ==
  << [stock_code |-> "005930", signal |-> "STRONG_BUY", score |-> 87],
     [stock_code |-> "035420", signal |-> "BUY", score |-> 75] >>

\* A getTopSignals request in flight: 0 is the one of the mount effect,
\* k > 0 the k-th of those the style effect issued.
RequestPending(k) ==
  IF k = 0 THEN initLoads["signals"] = "pending" ELSE k \in DOMAIN sigPending
\* loadSignals of the mount effect closes over the first render's style.
RequestStyle(k) == IF k = 0 THEN DefaultStyle ELSE sigPending[k]

\* What the settling of request k leaves of the bookkeeping.
SignalsSettle(k) ==
  /\ initLoads' = IF k = 0 THEN Settle(initLoads, "signals") ELSE initLoads
  /\ loading' = IF k = 0 THEN LoadingAfter(initLoads, "signals") ELSE loading
  /\ sigPending' = IF k = 0 THEN sigPending ELSE RemoveAt(sigPending, k)
  /\ UNCHANGED <<stocks, posPending, portVars, tradingStyle>>
  /\ UNCHANGED <<hookVars, modalVars, btVars, atVars, sdVars, stVars>>

\* onStyleChange={setTradingStyle}, then the effect on [tradingStyle]:
\* if (!loading) loadSignals()
SetTradingStyle(style) ==
  /\ mounted
  /\ initLoads["signals"] # "idle"
  /\ style # tradingStyle
  /\ ~loading => Len(sigPending) < MaxReloads
  /\ tradingStyle' = style
  /\ sigPending' = IF loading THEN sigPending ELSE Append(sigPending, style)
  /\ UNCHANGED dashVars
  /\ UNCHANGED <<hookVars, modalVars, btVars, atVars, sdVars, stVars>>
  /\ dirty' = TRUE
  /\ ev' = Ev("setStyle", style)

\* loadSignals: request k resolves.
LoadSignalsOk(k, resp) ==
  /\ RequestPending(k)
  /\ signals' = IF mounted THEN SignalsAfter(resp, RequestStyle(k), signals)
                           ELSE signals
  /\ SignalsSettle(k)
  /\ dirty' = (dirty \/ signals' # signals \/ loading' # loading)
  /\ ev' = Ev("loadSignalsOk", [req |-> k, style |-> RequestStyle(k), resp |-> resp])

\* loadSignals: request k rejects: the catch branch stores the demo signals.
LoadSignalsFail(k) ==
  /\ RequestPending(k)
  /\ signals' = IF mounted THEN FallbackSignals ELSE signals
  /\ SignalsSettle(k)
  /\ dirty' = (dirty \/ signals' # signals \/ loading' # loading)
  /\ ev' = Ev("loadSignalsFail", [req |-> k, style |-> RequestStyle(k)])

(***************************************************************************)
(* Dashboard: dismissing a signal                                          *)
(***************************************************************************)
\* A variant that removes every entry equal to the one at idx.
FilterOutEqual(prev, idx) ==
  IF idx \notin DOMAIN prev THEN prev
  ELSE LET RECURSIVE Keep(_)
           Keep(l) == IF l = <<>> THEN <<>>
                      ELSE IF Head(l) = prev[idx] THEN Keep(Tail(l))
                      ELSE <<Head(l)>> \o Keep(Tail(l))
       IN  Keep(prev)

\* prev.filter((_, i) => i !== idx)
FilterOutIndex(prev, idx) ==
  [k \in 1..(Len(prev) - (IF idx \in DOMAIN prev THEN 1 ELSE 0)) |->
     IF k < idx THEN prev[k] ELSE prev[k + 1]]

\* onDismiss of the idx-th SignalAlert rendered from the current list.
Dismiss(idx) ==
  /\ mounted
  /\ idx \in DOMAIN signals
  /\ signals' = FilterOutIndex(signals, idx)
  /\ UNCHANGED <<stocks, loading, initLoads, posPending>>
  /\ UNCHANGED portVars
  /\ UNCHANGED hookVars
  /\ ev' = Ev("dismiss", idx)
  /\ UNCHANGED modalVars
  /\ dirty' = TRUE
  /\ UNCHANGED pagesVars

(***************************************************************************)
(* TradePanel and OrderModal                                               *)
(***************************************************************************)
NoQuote == [stock_code |-> "", price |-> 0, change |-> 0, prev_close |-> 0]   \* quote === null
NoError == "null"                                           \* error === null

\* The messages handleSubmit sets (the source's texts are Korean).
QuantityError     == "enter a quantity"     \* setError of the quantity check
PriceError        == "enter a price"        \* setError of the price check
DefaultOrderError == "order failed"         \* the catch branch's fallback text

\* Quotes the user can select on the dashboard.
SelectableQuotes == {q \in Quotes : q.stock_code = "005930" /\ q.change = 1500}

\* Numbers the user can type into the quantity and price inputs
\* (Number(e.target.value) is 0 for an empty input).
QuantityInputs  == {-1, 0, 5}
PriceInputs     == {-1, 0}
QuickQuantities == {1, 5, 10, 50, 100}
QuickPercents   == {-2, -1, 0, 1, 2}

\* Math.round(quote.price * (1 + pct / 100)) for a non-negative price
PctPrice(p, pct) == (p * (100 + pct) + 50) \div 100

\* What onSubmit may reject with: an Error with a message, or another value.
Rejections ==
  { [isError |-> TRUE,  message |-> "insufficient funds"],
    [isError |-> FALSE, message |-> ""] }

\* A variant of the reset effect that keeps the previous error.
OpenResetKeepsError(q, cur) ==
  [quantity |-> 1, price |-> q.price, orderType |-> "MARKET", error |-> cur.error]

\* The reset effect's body: setQuantity(1); setPrice(quote.price);
\* setOrderType("MARKET"); setError(null)
OpenReset(q, cur) ==
  [quantity |-> 1, price |-> q.price, orderType |-> "MARKET", error |-> NoError]

CurFields ==
  [quantity |-> quantity, price |-> price, orderType |-> orderType, error |-> error]

\* useEffect(..., [isOpen, quote]): runs when isOpen or quote changed, and
\* resets the fields if (isOpen && quote).
AfterResetEffect(open, q, changed) ==
  IF changed /\ open /\ q # NoQuote THEN OpenReset(q, CurFields) ELSE CurFields

\* handleStockSelect: the dashboard selects a stock; it becomes the quote prop.
SelectStock(q) ==
  /\ quote' = q
  /\ LET r == AfterResetEffect(showOrderModal, q, q # quote)
     IN  /\ quantity' = r.quantity
         /\ price' = r.price
         /\ orderType' = r.orderType
         /\ error' = r.error
  /\ UNCHANGED <<showOrderModal, orderSide, isSubmitting, inflight>>
  /\ UNCHANGED <<hookVars, dashVars>>
  /\ ev' = Ev("select", q)
  /\ dirty' = (dirty \/ q # quote)
  /\ UNCHANGED pagesVars

\* handleOpenOrder(side) of a buy / sell button (rendered only with a quote,
\* and covered by the backdrop while the modal is open), then the reset effect.
OpenOrder(side) ==
  /\ quote # NoQuote
  /\ ~showOrderModal
  /\ orderSide' = side
  /\ showOrderModal' = TRUE
  /\ LET r == AfterResetEffect(TRUE, quote, TRUE)
     IN  /\ quantity' = r.quantity
         /\ price' = r.price
         /\ orderType' = r.orderType
         /\ error' = r.error
  /\ UNCHANGED <<quote, isSubmitting, inflight>>
  /\ UNCHANGED <<hookVars, dashVars>>
  /\ ev' = Ev("openOrder", side)
  /\ UNCHANGED dirty
  /\ UNCHANGED pagesVars

\* onClose from Escape, the backdrop, the X or the cancel button:
\* setShowOrderModal(false). Escape is handled also while the modal is closed.
CloseModal ==
  /\ quote # NoQuote
  /\ showOrderModal' = FALSE
  /\ UNCHANGED <<orderSide, quote, orderType, quantity, price, isSubmitting,
                 error, inflight>>
  /\ UNCHANGED <<hookVars, dashVars>>
  /\ ev' = Ev("closeModal", 0)
  /\ UNCHANGED dirty
  /\ UNCHANGED pagesVars

\* The controls of the open modal.
ModalShown == showOrderModal /\ quote # NoQuote

SetOrderType(t) ==
  /\ ModalShown
  /\ orderType' = t
  /\ UNCHANGED <<showOrderModal, orderSide, quote, quantity, price,
                 isSubmitting, error, inflight>>
  /\ UNCHANGED <<hookVars, dashVars>>
  /\ ev' = Ev("setOrderType", t)
  /\ UNCHANGED dirty
  /\ UNCHANGED pagesVars

\* The quantity input and the quick-quantity buttons.
SetQuantity(n) ==
  /\ ModalShown
  /\ quantity' = n
  /\ UNCHANGED <<showOrderModal, orderSide, quote, orderType, price,
                 isSubmitting, error, inflight>>
  /\ UNCHANGED <<hookVars, dashVars>>
  /\ ev' = Ev("setQuantity", n)
  /\ UNCHANGED dirty
  /\ UNCHANGED pagesVars

\* The price input, rendered for LIMIT orders only.
SetPrice(p) ==
  /\ ModalShown
  /\ orderType = "LIMIT"
  /\ price' = p
  /\ UNCHANGED <<showOrderModal, orderSide, quote, orderType, quantity,
                 isSubmitting, error, inflight>>
  /\ UNCHANGED <<hookVars, dashVars>>
  /\ ev' = Ev("setPrice", p)
  /\ UNCHANGED dirty
  /\ UNCHANGED pagesVars

\* The percent buttons under the price input.
QuickPrice(pct) ==
  /\ ModalShown
  /\ orderType = "LIMIT"
  /\ price' = PctPrice(quote.price, pct)
  /\ UNCHANGED <<showOrderModal, orderSide, quote, orderType, quantity,
                 isSubmitting, error, inflight>>
  /\ UNCHANGED <<hookVars, dashVars>>
  /\ ev' = Ev("quickPrice", pct)
  /\ UNCHANGED dirty
  /\ UNCHANGED pagesVars

\* Variants of the validation: without the quantity check, without the price
\* check.
ValidateNoQuantity(qty, type, p) ==
  IF type = "LIMIT" /\ p <= 0 THEN PriceError ELSE NoError
ValidateNoPrice(qty, type, p) ==
  IF qty <= 0 THEN QuantityError ELSE NoError

\* The two checks at the head of handleSubmit: the message to set, or NoError.
Validate(qty, type, p) ==
  IF qty <= 0 THEN QuantityError
  ELSE IF type = "LIMIT" /\ p <= 0 THEN PriceError
  ELSE NoError

\* The OrderRequest handed to onSubmit; price is null (<<>>) for MARKET.
OrderOf(q, qty, type, p) ==
  [stock_code |-> q.stock_code, quantity |-> qty,
   price |-> IF type = "LIMIT" THEN <<p>> ELSE <<>>, order_type |-> type]

\* handleSubmit, from the submit button (disabled while isSubmitting), up to
\* the await of onSubmit.
HandleSubmit ==
  /\ ModalShown
  /\ ~isSubmitting
  /\ LET v == Validate(quantity, orderType, price)
     IN  IF v # NoError
         THEN /\ error' = v
              /\ UNCHANGED <<isSubmitting, inflight, orderArgs>>
              /\ ev' = Ev("submit", [called |-> FALSE, order |-> <<>>])
         ELSE /\ isSubmitting' = TRUE
              /\ error' = NoError
              /\ ~inflight
              /\ inflight' = TRUE
              \* TradePanel's handleOrderSubmit: onOrderSubmit(orderSide, order)
              /\ orderArgs' = [side |-> orderSide]
              /\ ev' = Ev("submit", [called |-> TRUE,
                            order |-> <<OrderOf(quote, quantity, orderType, price)>>])
  /\ UNCHANGED <<showOrderModal, orderSide, quote, orderType, quantity, price>>
  /\ UNCHANGED <<stocks, signals, loading, initLoads, posPending>>
  /\ UNCHANGED <<positions, balance, balPending, orderSuccess>>
  /\ UNCHANGED hookVars
  /\ UNCHANGED dirty
  /\ UNCHANGED pagesVars

\* handleSubmit after the await, onSubmit resolved: onClose(); finally
\* setIsSubmitting(false)
ModalResolved ==
  /\ inflight' = FALSE
  /\ showOrderModal' = FALSE
  /\ isSubmitting' = FALSE
  /\ UNCHANGED <<orderSide, quote, orderType, quantity, price, error>>

\* onSubmit resolved (any onSubmit).
SubmitResolved ==
  /\ inflight
  /\ ModalResolved
  /\ orderArgs' = NoOrder
  /\ UNCHANGED <<stocks, signals, loading, initLoads, posPending>>
  /\ UNCHANGED <<positions, balance, balPending, orderSuccess>>
  /\ UNCHANGED hookVars
  /\ ev' = Ev("resolved", 0)
  /\ UNCHANGED dirty
  /\ UNCHANGED pagesVars

\* A variant of the catch branch that sets no error.
RejectionTextNone(rej) == NoError

\* err instanceof Error ? err.message : <fallback text>
RejectionText(rej) == IF rej.isError THEN rej.message ELSE DefaultOrderError

\* handleSubmit after the await, onSubmit rejected: setError(...); finally
\* setIsSubmitting(false)
ModalRejected(rej) ==
  /\ inflight' = FALSE
  /\ error' = RejectionText(rej)
  /\ isSubmitting' = FALSE
  /\ UNCHANGED <<showOrderModal, orderSide, quote, orderType, quantity, price>>

\* onSubmit rejected (any onSubmit).
SubmitRejected(rej) ==
  /\ inflight
  /\ ModalRejected(rej)
  /\ orderArgs' = NoOrder
  /\ UNCHANGED <<stocks, signals, loading, initLoads, posPending>>
  /\ UNCHANGED <<positions, balance, balPending, orderSuccess>>
  /\ UNCHANGED hookVars
  /\ ev' = Ev("rejected", rej)
  /\ UNCHANGED dirty
  /\ UNCHANGED pagesVars

(***************************************************************************)
(* Dashboard: handleOrderSubmit                                            *)
(***************************************************************************)
\* Responses of ordersApi.buy / ordersApi.sell: a status and a message that
\* may be empty.
OrderResponses ==
  [status : {"FILLED", "SUBMITTED", "REJECTED"}, message : {"", "limit exceeded"}]

\* The texts handleOrderSubmit builds (the source's texts are Korean).
ToastText(side, status) ==
  [side |-> side, outcome |-> IF status = "FILLED" THEN "filled" ELSE "accepted"]
DefaultProcessError == "order processing failed"

\* A variant that accepts FILLED only.
OrderAcceptedFilledOnly(status) == status = "FILLED"

\* response.status === "FILLED" || response.status === "SUBMITTED"
OrderAccepted(status) == status \in {"FILLED", "SUBMITTED"}

\* new Error(response.message || <default text>)
ProcessError(resp) ==
  [isError |-> TRUE,
   message |-> IF resp.message # "" THEN resp.message ELSE DefaultProcessError]

\* The order call resolves. Accepted: the toast is set, loadPositions() and
\* loadBalance() are issued, the 3 s timer is started and the call resolves
\* through TradePanel to the modal. Otherwise the thrown Error is rethrown
\* by the catch and reaches the modal's catch.
OrderApiResolved(resp) ==
  /\ inflight
  /\ orderArgs # NoOrder
  /\ IF OrderAccepted(resp.status)
     THEN /\ posPending < MaxPending
          /\ balPending < MaxPending
          /\ orderSuccess' = ToastText(orderArgs.side, resp.status)
          /\ posPending' = posPending + 1
          /\ balPending' = balPending + 1
          /\ dirty' = TRUE
          /\ ModalResolved
     ELSE /\ UNCHANGED <<orderSuccess, posPending, balPending, dirty>>
          /\ ModalRejected(ProcessError(resp))
  /\ orderArgs' = NoOrder
  /\ UNCHANGED <<stocks, signals, loading, initLoads, positions, balance>>
  /\ UNCHANGED <<hookVars, pagesVars>>
  /\ ev' = Ev("orderResolved", resp)

\* The order call rejects: the catch rethrows, the modal's catch shows it.
OrderApiRejected(rej) ==
  /\ inflight
  /\ orderArgs # NoOrder
  /\ ModalRejected(rej)
  /\ orderArgs' = NoOrder
  /\ UNCHANGED <<stocks, signals, loading, initLoads, posPending>>
  /\ UNCHANGED <<positions, balance, balPending, orderSuccess>>
  /\ UNCHANGED <<hookVars, dirty, pagesVars>>
  /\ ev' = Ev("orderRejected", rej)

\* setTimeout(() => setOrderSuccess(null), 3000) of a shown toast fires.
ToastTimeout ==
  /\ orderSuccess # NoToast
  /\ orderSuccess' = NoToast
  /\ dirty' = TRUE
  /\ UNCHANGED <<stocks, signals, loading, initLoads, posPending>>
  /\ UNCHANGED <<positions, balance, balPending, orderArgs>>
  /\ UNCHANGED <<hookVars, modalVars, pagesVars>>
  /\ ev' = Ev("toastTimeout", 0)

(***************************************************************************)
(* Stock detail page: loadData                                             *)
(***************************************************************************)
NoCode   == "none"                       \* the page's effect has not run yet
Periods  == {"D", "W", "M"}
SdNull   == [src |-> "null", code |-> ""]               \* quote / analysis === null
SdEmpty  == [src |-> "empty", code |-> "", period |-> ""]   \* chartData / news === []
Outcomes == {"ok", "unsuccessful", "rejected"}

\* The fallback quote and analysis of a code, and what the server answers.
MockOf(c)   == [src |-> "mock", code |-> c]
ServerOf(c) == [src |-> "server", code |-> c]
\* generateMockChartData(72500), generateMockNews(getStockName(code))
MockChart   == [src |-> "mock", code |-> "", period |-> ""]
MockNews(c) == [src |-> "mock", code |-> c, period |-> ""]
\* response.data of stocksApi.getOhlcv(code, chartPeriod, 60)
ServerChart(c, p) == [src |-> "server", code |-> c, period |-> p]

\* A state setter of the page: nothing happens once it is unmounted.
SdSet(new, old) == IF mounted THEN new ELSE old

\* loadData() starts: setLoading(true), getDetail(code) is sent. The run
\* closes over the code and chartPeriod of its render.
SdStart(c, p) ==
  /\ Len(sdLoads) < MaxLoads
  /\ sdLoading' = TRUE
  /\ sdLoads' = Append(sdLoads, [code |-> c, period |-> p, stage |-> "detail"])
  /\ UNCHANGED <<sdQuote, sdAnalysis, sdIndicators, sdChart, sdNews>>
  /\ UNCHANGED <<hookVars, dashVars, modalVars, dirty, btVars, atVars, sigVars, stVars>>

\* The effect on [code, chartPeriod] after the mount.
SdEffect(c) ==
  /\ mounted
  /\ sdCode = NoCode
  /\ sdCode' = c
  /\ UNCHANGED chartPeriod
  /\ SdStart(c, chartPeriod)
  /\ ev' = Ev("sdEffect", c)

\* The route's code changes: the effect runs again.
SdNavigate(c) ==
  /\ mounted
  /\ sdCode # NoCode
  /\ c # sdCode
  /\ sdCode' = c
  /\ UNCHANGED chartPeriod
  /\ SdStart(c, chartPeriod)
  /\ ev' = Ev("sdNavigate", c)

\* The stock view is rendered: neither the loading screen nor "Stock not
\* found".
SdStockView == ~sdLoading /\ sdQuote # SdNull /\ sdAnalysis # SdNull

\* A period button of the stock view: setChartPeriod(period); the effect
\* runs again.
SdSetChartPeriod(p) ==
  /\ mounted
  /\ sdCode # NoCode
  /\ SdStockView
  /\ p # chartPeriod
  /\ chartPeriod' = p
  /\ UNCHANGED sdCode
  /\ SdStart(sdCode, p)
  /\ ev' = Ev("sdPeriod", p)

\* The outer catch and finally of loadData: fallback quote, chart and news
\* (analysis is not set), setLoading(false).
SdCatch(k) ==
  /\ sdQuote' = SdSet(MockOf(sdLoads[k].code), sdQuote)
  /\ sdChart' = SdSet(MockChart, sdChart)
  /\ sdNews' = SdSet(MockNews(sdLoads[k].code), sdNews)
  /\ sdLoading' = SdSet(FALSE, sdLoading)
  /\ sdLoads' = RemoveAt(sdLoads, k)
  /\ UNCHANGED sent

SdUntouched ==
  /\ UNCHANGED <<sdCode, chartPeriod>>
  /\ UNCHANGED <<mounted, socks, wsRef, isConnected, lastMessage>>
  /\ UNCHANGED <<dashVars, modalVars, dirty, btVars, atVars, sigVars, stVars>>

\* getDetail of run k settles.
SdDetailSettled(k, out) ==
  /\ k \in DOMAIN sdLoads
  /\ sdLoads[k].stage = "detail"
  /\ IF out = "rejected"
     THEN /\ SdCatch(k)
          /\ UNCHANGED <<sdAnalysis, sdIndicators>>
     ELSE /\ sdQuote' = SdSet(IF out = "ok" THEN ServerOf(sdLoads[k].code)
                                            ELSE MockOf(sdLoads[k].code), sdQuote)
          /\ sdLoads' = [sdLoads EXCEPT ![k].stage = "analyze"]
          /\ UNCHANGED <<sdAnalysis, sdIndicators, sdChart, sdNews, sdLoading, sent>>
  /\ SdUntouched
  /\ ev' = Ev("sdDetail", [run |-> k, code |-> sdLoads[k].code, out |-> out])

\* signalsApi.analyze of run k settles; hasInd: the answer carries indicators.
SdAnalyzeSettled(k, out, hasInd) ==
  /\ k \in DOMAIN sdLoads
  /\ sdLoads[k].stage = "analyze"
  /\ IF out = "rejected"
     THEN /\ SdCatch(k)
          /\ UNCHANGED <<sdAnalysis, sdIndicators>>
     ELSE /\ sdAnalysis' = SdSet(IF out = "ok" THEN ServerOf(sdLoads[k].code)
                                               ELSE MockOf(sdLoads[k].code), sdAnalysis)
          /\ sdIndicators' = SdSet(IF out = "ok"
                                     THEN (IF hasInd THEN "mapped" ELSE sdIndicators)
                                     ELSE "mock", sdIndicators)
          /\ sdLoads' = [sdLoads EXCEPT ![k].stage = "ohlcv"]
          /\ UNCHANGED <<sdQuote, sdChart, sdNews, sdLoading, sent>>
  /\ SdUntouched
  /\ ev' = Ev("sdAnalyze", [run |-> k, code |-> sdLoads[k].code, out |-> out])

\* getOhlcv of run k settles (its own try/catch), then setNews,
\* subscribe(code) and the finally: setLoading(false).
SdOhlcvSettled(k, out) ==
  /\ k \in DOMAIN sdLoads
  /\ sdLoads[k].stage = "ohlcv"
  /\ SendRoom(socks, wsRef)
  /\ sdChart' = SdSet(IF out = "ok" THEN ServerChart(sdLoads[k].code, sdLoads[k].period)
                                    ELSE MockChart, sdChart)
  /\ sdNews' = SdSet(MockNews(sdLoads[k].code), sdNews)
  /\ sent' = SendMessage(socks, wsRef, sent,
                SubscribeData([isArray |-> FALSE, val |-> sdLoads[k].code]))
  /\ sdLoading' = SdSet(FALSE, sdLoading)
  /\ sdLoads' = RemoveAt(sdLoads, k)
  /\ UNCHANGED <<sdQuote, sdAnalysis, sdIndicators>>
  /\ SdUntouched
  /\ ev' = Ev("sdOhlcv", [run |-> k, code |-> sdLoads[k].code,
                          period |-> sdLoads[k].period, out |-> out])

(***************************************************************************)
(* Settings page                                                           *)
(***************************************************************************)
WeightKeys ==
  {"volume", "order_book", "vwap", "rsi", "macd", "ma", "bollinger", "obv"}

\* defaultSettings.indicator_weights
DefaultWeights ==
  [k \in WeightKeys |->
     CASE k = "volume" -> 25 [] k = "order_book" -> 20 [] k = "vwap" -> 18
       [] k = "rsi" -> 12 [] k = "macd" -> 10 [] k = "ma" -> 8
       [] k = "bollinger" -> 5 [] OTHER -> 2]

\* Object.values(weights).reduce((sum, w) => sum + w, 0)
RECURSIVE SumOver(_, _)
SumOver(w, keys) ==
  IF keys = {} THEN 0
  ELSE LET k == CHOOSE x \in keys : TRUE IN w[k] + SumOver(w, keys \ {k})
TotalWeight(w) == SumOver(w, DOMAIN w)

\* Values the range inputs (min 0, max 50) are moved to, on two of the keys.
WeightInputs == {0, 25, 26, 50}
EditedKeys   == {"volume", "obv"}

\* What settingsApi.getAll() answers in data.indicator_weights: nothing, the
\* defaults, or weights that do not add up to 100.
ServerWeights == {DefaultWeights, [DefaultWeights EXCEPT !["obv"] = 0]}

NoStError == ""
SaveErrors == {[hasMessage |-> TRUE, message |-> "Network Error"],
               [hasMessage |-> FALSE, message |-> ""]}
DefaultSaveError == "Failed to save settings"

StUntouched ==
  UNCHANGED <<hookVars, dashVars, modalVars, dirty, btVars, atVars, sigVars, sdVars>>

\* The page mounts: fresh state; fetchSettings() is sent.
StMount ==
  /\ ~stMounted
  /\ stMounted' = TRUE
  /\ weights' = DefaultWeights
  /\ isSaving' = FALSE
  /\ saved' = FALSE
  /\ stError' = NoStError
  /\ stLoading' = TRUE
  /\ stFetching' = TRUE
  /\ stSaves' = <<>>
  /\ stTimers' = 0
  /\ StUntouched
  /\ ev' = Ev("stMount", 0)

\* settingsApi.getAll() settles: data.indicator_weights || defaults when it
\* resolved with data; finally setIsLoading(false).
StFetchSettled(out, hasWeights, w) ==
  /\ stMounted
  /\ stFetching
  /\ stFetching' = FALSE
  /\ weights' = IF out = "data"
                  THEN (IF hasWeights THEN w ELSE DefaultWeights)
                  ELSE weights
  /\ stLoading' = FALSE
  /\ UNCHANGED <<stMounted, isSaving, saved, stError, stSaves, stTimers>>
  /\ StUntouched
  /\ ev' = Ev("stFetch", out)

\* updateWeight(key, value)
UpdateWeight(key, value) ==
  /\ stMounted
  /\ weights' = [weights EXCEPT ![key] = value]
  /\ UNCHANGED <<stMounted, isSaving, saved, stError, stLoading, stFetching,
                 stSaves, stTimers>>
  /\ StUntouched
  /\ ev' = Ev("updateWeight", key)

\* handleSave up to its await (the button is disabled while isSaving):
\* settingsApi.updateAll({ ..., indicator_weights: settings.indicator_weights })
HandleSave ==
  /\ stMounted
  /\ ~isSaving
  /\ isSaving' = TRUE
  /\ stError' = NoStError
  /\ stSaves' = Append(stSaves, weights)
  /\ UNCHANGED <<stMounted, weights, saved, stLoading, stFetching, stTimers>>
  /\ StUntouched
  /\ ev' = Ev("save", TotalWeight(weights))

\* updateAll resolves: setSaved(true), the 2 s timer, setIsSaving(false).
SaveResolved ==
  /\ stMounted
  /\ stSaves # <<>>
  /\ stTimers < MaxTimers
  /\ stSaves' = Tail(stSaves)
  /\ saved' = TRUE
  /\ stTimers' = stTimers + 1
  /\ isSaving' = FALSE
  /\ UNCHANGED <<stMounted, weights, stError, stLoading, stFetching>>
  /\ StUntouched
  /\ ev' = Ev("saveResolved", 0)

\* updateAll rejects: setError(err.message || "Failed to save settings"),
\* setIsSaving(false).
SaveRejected(err) ==
  /\ stMounted
  /\ stSaves # <<>>
  /\ stSaves' = Tail(stSaves)
  /\ stError' = IF err.hasMessage THEN err.message ELSE DefaultSaveError
  /\ isSaving' = FALSE
  /\ UNCHANGED <<stMounted, weights, saved, stLoading, stFetching, stTimers>>
  /\ StUntouched
  /\ ev' = Ev("saveRejected", 0)

\* setTimeout(() => setSaved(false), 2000)
SavedTimeout ==
  /\ stMounted
  /\ stTimers > 0
  /\ stTimers' = stTimers - 1
  /\ saved' = FALSE
  /\ UNCHANGED <<stMounted, weights, isSaving, stError, stLoading, stFetching, stSaves>>
  /\ StUntouched
  /\ ev' = Ev("savedTimeout", 0)

(***************************************************************************)
(* Backtest page: runBacktest                                              *)
(***************************************************************************)
notBtVars == <<hookVars, dashVars, modalVars, dirty, atVars, moreVars>>

\* One runBacktest call: the outcome of runAsync ("pending", "accepted",
\* "rejected"), the job's status on the server, whether its pollInterval is
\* active, the status responses on their way back (each the status the
\* server answered with), the getResult requests in flight, the getResult
\* calls made so far, and the next value of i in the fallback loop.
NewRun ==
  [sub |-> "pending", job |-> "none", timer |-> FALSE, polls |-> <<>>,
   fetching |-> 0, calls |-> 0, fb |-> 0]

\* status.progress as the server reports it with each status.
JobProgress(st) == IF st = "completed" THEN 100 ELSE 50

\* The page mounts: a fresh instance; timers and requests of an earlier
\* instance can no longer reach its state.
BtMount ==
  /\ ~btMounted
  /\ btMounted' = TRUE
  /\ isRunning' = FALSE
  /\ progress' = 0
  /\ result' = NoResult
  /\ btRuns' = <<>>
  /\ UNCHANGED notBtVars
  /\ ev' = Ev("btMount", 0)

\* The page unmounts: the component registers no cleanup.
BtUnmount ==
  /\ btMounted
  /\ btMounted' = FALSE
  /\ UNCHANGED <<isRunning, progress, result, btRuns>>
  /\ UNCHANGED notBtVars
  /\ ev' = Ev("btUnmount", 0)

\* runBacktest up to the await of runAsync (the button is disabled while
\* isRunning).
RunBacktest ==
  /\ btMounted
  /\ ~isRunning
  /\ Len(btRuns) < MaxRuns
  /\ isRunning' = TRUE
  /\ progress' = 0
  /\ result' = NoResult
  /\ btRuns' = Append(btRuns, NewRun)
  /\ UNCHANGED btMounted
  /\ UNCHANGED notBtVars
  /\ ev' = Ev("runBacktest", Len(btRuns) + 1)

\* runAsync resolves: pollInterval = setInterval(..., 500)
RunAsyncResolved(r) ==
  /\ r \in DOMAIN btRuns
  /\ btRuns[r].sub = "pending"
  /\ btRuns' = [btRuns EXCEPT ![r].sub = "accepted", ![r].job = "running",
                              ![r].timer = TRUE]
  /\ UNCHANGED <<btMounted, isRunning, progress, result>>
  /\ UNCHANGED notBtVars
  /\ ev' = Ev("runAsyncResolved", r)

\* runAsync rejects: the catch branch starts its loop (i = 0).
RunAsyncRejected(r) ==
  /\ r \in DOMAIN btRuns
  /\ btRuns[r].sub = "pending"
  /\ btRuns' = [btRuns EXCEPT ![r].sub = "rejected"]
  /\ UNCHANGED <<btMounted, isRunning, progress, result>>
  /\ UNCHANGED notBtVars
  /\ ev' = Ev("runAsyncRejected", r)

\* A variant of the fallback loop's last iteration that leaves result alone.
FallbackResultNone(i, cur) == cur

\* result after the iteration with value i: setResult(mockResult) follows
\* the last one (i = 100).
FallbackResult(i, cur) == IF i = 100 THEN "mock" ELSE cur

\* One iteration of the catch branch's loop, after its 100 ms timer:
\* setProgress(i); after the last one setResult(mockResult) and
\* setIsRunning(false). (State setters of an unmounted page do nothing.)
FallbackStep(r) ==
  /\ r \in DOMAIN btRuns
  /\ btRuns[r].sub = "rejected"
  /\ btRuns[r].fb <= 100
  /\ btRuns' = [btRuns EXCEPT ![r].fb = @ + 5]
  /\ IF btMounted
     THEN /\ progress' = btRuns[r].fb
          /\ result' = FallbackResult(btRuns[r].fb, result)
          /\ isRunning' = (IF btRuns[r].fb = 100 THEN FALSE ELSE isRunning)
     ELSE UNCHANGED <<progress, result, isRunning>>
  /\ UNCHANGED btMounted
  /\ UNCHANGED notBtVars
  /\ ev' = Ev("fallbackStep", r)

\* The job of run r ends on the server.
JobEnds(r, st) ==
  /\ r \in DOMAIN btRuns
  /\ btRuns[r].job = "running"
  /\ btRuns' = [btRuns EXCEPT ![r].job = st]
  /\ UNCHANGED <<btMounted, isRunning, progress, result>>
  /\ UNCHANGED notBtVars
  /\ ev' = Ev("jobEnds", r)

\* The interval of run r fires: backtestApi.getStatus(backtestId) is sent;
\* the server answers with the job's status.
PollTick(r) ==
  /\ r \in DOMAIN btRuns
  /\ btRuns[r].timer
  /\ Len(btRuns[r].polls) < MaxPolls
  /\ btRuns' = [btRuns EXCEPT ![r].polls = Append(@, btRuns[r].job)]
  /\ UNCHANGED <<btMounted, isRunning, progress, result>>
  /\ UNCHANGED notBtVars
  /\ ev' = Ev("pollTick", r)

\* The k-th status request in flight of run r resolves: setProgress;
\* completed: clearInterval, getResult is sent; failed: clearInterval,
\* setIsRunning(false).
PollResolved(r, k) ==
  /\ r \in DOMAIN btRuns
  /\ k \in DOMAIN btRuns[r].polls
  /\ LET st == btRuns[r].polls[k]
     IN  /\ btRuns' = [btRuns EXCEPT
                ![r].polls = RemoveAt(@, k),
                ![r].timer = IF st \in {"completed", "failed"} THEN FALSE ELSE @,
                ![r].fetching = IF st = "completed" THEN @ + 1 ELSE @,
                ![r].calls = IF st = "completed" THEN @ + 1 ELSE @]
         /\ progress' = (IF btMounted THEN JobProgress(st) ELSE progress)
         /\ isRunning' = (IF btMounted /\ st = "failed" THEN FALSE ELSE isRunning)
         /\ ev' = Ev("pollResolved", [run |-> r, status |-> st])
  /\ UNCHANGED <<btMounted, result>>
  /\ UNCHANGED notBtVars

\* The k-th status request in flight of run r rejects: the catch logs.
PollRejected(r, k) ==
  /\ r \in DOMAIN btRuns
  /\ k \in DOMAIN btRuns[r].polls
  /\ btRuns' = [btRuns EXCEPT ![r].polls = RemoveAt(@, k)]
  /\ UNCHANGED <<btMounted, isRunning, progress, result>>
  /\ UNCHANGED notBtVars
  /\ ev' = Ev("pollRejected", r)

\* A getResult request of run r resolves: setResult(resultData.data) if
\* (resultData.success && resultData.data); setIsRunning(false).
ResultResolved(r, ok) ==
  /\ r \in DOMAIN btRuns
  /\ btRuns[r].fetching > 0
  /\ btRuns' = [btRuns EXCEPT ![r].fetching = @ - 1]
  /\ result' = (IF btMounted /\ ok THEN "server" ELSE result)
  /\ isRunning' = (IF btMounted THEN FALSE ELSE isRunning)
  /\ UNCHANGED <<btMounted, progress>>
  /\ UNCHANGED notBtVars
  /\ ev' = Ev("resultResolved", r)

\* A getResult request of run r rejects: the poll callback's catch logs.
ResultRejected(r) ==
  /\ r \in DOMAIN btRuns
  /\ btRuns[r].fetching > 0
  /\ btRuns' = [btRuns EXCEPT ![r].fetching = @ - 1]
  /\ UNCHANGED <<btMounted, isRunning, progress, result>>
  /\ UNCHANGED notBtVars
  /\ ev' = Ev("resultRejected", r)

(***************************************************************************)
(* AutoTraderPanel: the status effect                                      *)
(***************************************************************************)
notAtVars == <<hookVars, dashVars, modalVars, dirty, btVars, moreVars>>

\* The effect: fetchStatus(); setInterval(fetchStatus, 5000)
AtMount ==
  /\ ~atMounted
  /\ atMounted' = TRUE
  /\ atInterval' = TRUE
  /\ atFetches' = 1
  /\ atStatus' = "null"
  /\ UNCHANGED notAtVars
  /\ ev' = Ev("atMount", 0)

\* The effect's cleanup: clearInterval(interval)
AtUnmount ==
  /\ atMounted
  /\ atMounted' = FALSE
  /\ atInterval' = FALSE
  /\ UNCHANGED <<atFetches, atStatus>>
  /\ UNCHANGED notAtVars
  /\ ev' = Ev("atUnmount", 0)

\* The interval fires: fetchStatus() sends autoTraderApi.getStatus()
AtTick ==
  /\ atInterval
  /\ atFetches < MaxPolls
  /\ atFetches' = atFetches + 1
  /\ UNCHANGED <<atMounted, atInterval, atStatus>>
  /\ UNCHANGED notAtVars
  /\ ev' = Ev("atTick", 0)

\* A getStatus request settles: setStatus(response.data) if it resolved
\* with success; a rejection is logged. The interval is left alone.
AtFetchSettled(outcome) ==
  /\ atFetches > 0
  /\ atFetches' = atFetches - 1
  /\ atStatus' = (IF atMounted /\ outcome \notin {"rejected", "unsuccessful"}
                  THEN outcome ELSE atStatus)
  /\ UNCHANGED <<atMounted, atInterval>>
  /\ UNCHANGED notAtVars
  /\ ev' = Ev("atFetchSettled", outcome)

(***************************************************************************)
(* Initial state and specifications                                        *)
(***************************************************************************)
Init ==
  /\ mounted = FALSE
  /\ socks = <<>>
  /\ wsRef = 0
  /\ isConnected = FALSE
  /\ lastMessage = NoMessage
  /\ sent = <<>>
  /\ stocks = <<>>
  /\ signals = <<>>
  /\ loading = TRUE
  /\ initLoads = [n \in LoadNames |-> "idle"]
  /\ posPending = 0
  /\ showOrderModal = FALSE
  /\ orderSide = "BUY"
  /\ quote = NoQuote
  /\ orderType = "MARKET"
  /\ quantity = 1
  /\ price = 0
  /\ isSubmitting = FALSE
  /\ error = NoError
  /\ inflight = FALSE
  /\ positions = <<>>
  /\ balance = InitialBalance
  /\ balPending = 0
  /\ orderSuccess = NoToast
  /\ orderArgs = NoOrder
  /\ dirty = FALSE
  /\ btMounted = FALSE
  /\ isRunning = FALSE
  /\ progress = 0
  /\ result = NoResult
  /\ btRuns = <<>>
  /\ atMounted = FALSE
  /\ atInterval = FALSE
  /\ atFetches = 0
  /\ atStatus = "null"
  /\ tradingStyle = DefaultStyle
  /\ sigPending = <<>>
  /\ sdCode = NoCode
  /\ chartPeriod = "D"
  /\ sdQuote = SdNull
  /\ sdAnalysis = SdNull
  /\ sdIndicators = "empty"
  /\ sdChart = SdEmpty
  /\ sdNews = SdEmpty
  /\ sdLoading = TRUE
  /\ sdLoads = <<>>
  /\ stMounted = FALSE
  /\ weights = DefaultWeights
  /\ isSaving = FALSE
  /\ saved = FALSE
  /\ stError = NoStError
  /\ stLoading = TRUE
  /\ stFetching = FALSE
  /\ stSaves = <<>>
  /\ stTimers = 0
  /\ ev = [op |-> "none", arg |-> 0, rs |-> "none"]

\* The stock list of the dashboard: mount, loadStocks and stock_update pushes.
NextStocks ==
  \/ HookMount
  \/ InitEffect
  \/ \E s \in 1..MaxSockets : OnOpen(s)
  \/ ServerTake
  \/ \E items \in ServerItems : LoadStocksOk(items)
  \/ LoadStocksNoSuccess
  \/ LoadStocksFail
  \/ \E s \in 1..MaxSockets, f \in WellFormedFrames(StockUpdateMsgs) : OnMessage(s, f)

SpecStocks == Init /\ [][NextStocks]_vars

\* The signal list of the dashboard: signal_alert pushes and dismissals.
NextSignals ==
  \/ HookMount
  \/ \E s \in 1..MaxSockets : OnOpen(s)
  \/ ServerTake
  \/ \E s \in 1..MaxSockets, f \in WellFormedFrames(SignalAlertMsgs) : OnMessage(s, f)
  \/ \E idx \in 1..SignalCap : Dismiss(idx)

SpecSignals == Init /\ [][NextSignals]_vars

\* The signal list of the dashboard: the loads of the mount effect, style
\* changes and the reloads they start, signal_alert pushes and dismissals.
OneAlert == {m \in SignalAlertMsgs : m.stock_code = "000660"}

NextSignalLoads ==
  \/ HookMount
  \/ InitEffect
  \/ \E s \in 1..MaxSockets : OnOpen(s)
  \/ LoadStocksNoSuccess
  \/ LoadPositionsFail("init")
  \/ LoadBalanceFail("init")
  \/ \E style \in TradingStyles : SetTradingStyle(style)
  \/ \E k \in 0..MaxReloads, resp \in SignalResponses : LoadSignalsOk(k, resp)
  \/ \E k \in 0..MaxReloads : LoadSignalsFail(k)
  \/ \E s \in 1..MaxSockets, f \in WellFormedFrames(OneAlert) : OnMessage(s, f)
  \/ \E idx \in 1..(SignalCap + 1) : Dismiss(idx)

SpecSignalLoads == Init /\ [][NextSignalLoads]_vars

\* The mount effect of the dashboard: the four loads of Promise.all, each
\* with every outcome, while the socket opens and the server reads.
StocksSettles ==
  \/ \E items \in SingleItems : LoadStocksOk(items)
  \/ LoadStocksNoSuccess
  \/ LoadStocksFail
PositionsSettles ==
  \/ \E resp \in PositionResponses : LoadPositionsOk("init", resp)
  \/ LoadPositionsFail("init")
BalanceSettles ==
  \/ \E resp \in BalanceResponses : LoadBalanceOk("init", resp)
  \/ LoadBalanceFail("init")
SignalsSettles ==
  \/ \E resp \in SignalResponses : LoadSignalsOk(0, resp)
  \/ LoadSignalsFail(0)

NextInit ==
  \/ HookMount
  \/ InitEffect
  \/ \E s \in 1..MaxSockets : OnOpen(s)
  \/ ServerTake
  \/ StocksSettles
  \/ PositionsSettles
  \/ BalanceSettles
  \/ SignalsSettles

SpecInit == Init /\ [][NextInit]_vars

\* Every request the mount effect issued is answered or fails, the effect
\* runs after the mount, and the server reads what the socket carries.
SpecInitFair ==
  /\ SpecInit
  /\ WF_vars(InitEffect)
  /\ WF_vars(ServerTake)
  /\ WF_vars(StocksSettles)
  /\ WF_vars(PositionsSettles)
  /\ WF_vars(BalanceSettles)
  /\ WF_vars(SignalsSettles)

\* The live subscriptions of the dashboard: the stock fetch of the mount
\* effect against the socket's events. The fetch settles, a connecting
\* socket the hook holds opens, and the server reads what was sent.
CurrentOpens == wsRef # 0 /\ OnOpen(wsRef)

NextLive ==
  \/ HookMount
  \/ InitEffect
  \/ DashRender
  \/ \E s \in 1..MaxSockets : OnOpen(s)
  \/ \E s \in 1..MaxSockets : OnClose(s)
  \/ ServerTake
  \/ StocksSettles

SpecLiveFair ==
  /\ Init /\ [][NextLive]_vars
  /\ WF_vars(HookMount)
  /\ WF_vars(InitEffect)
  /\ WF_vars(StocksSettles)
  /\ WF_vars(CurrentOpens)
  /\ WF_vars(ServerTake)

\* The stock detail page: its mount, changes of the route's code and of the
\* chart period, and the three requests of each loadData run.
NextStockDetail ==
  \/ HookMount
  \/ \E s \in 1..MaxSockets : OnOpen(s)
  \/ ServerTake
  \/ \E c \in Codes : SdEffect(c)
  \/ \E c \in Codes : SdNavigate(c)
  \/ \E p \in Periods : SdSetChartPeriod(p)
  \/ \E k \in 1..MaxLoads, out \in Outcomes : SdDetailSettled(k, out)
  \/ \E k \in 1..MaxLoads, out \in Outcomes, hasInd \in BOOLEAN :
        SdAnalyzeSettled(k, out, hasInd)
  \/ \E k \in 1..MaxLoads, out \in Outcomes : SdOhlcvSettled(k, out)

SpecStockDetail == Init /\ [][NextStockDetail]_vars

\* The settings page: its mount, the weight sliders and the Save button.
NextSettings ==
  \/ StMount
  \/ \E out \in {"data", "empty", "rejected"}, hasWeights \in BOOLEAN, w \in ServerWeights :
        StFetchSettled(out, hasWeights, w)
  \/ \E key \in EditedKeys, value \in WeightInputs : UpdateWeight(key, value)
  \/ HandleSave
  \/ SaveResolved
  \/ \E err \in SaveErrors : SaveRejected(err)
  \/ SavedTimeout

SpecSettings == Init /\ [][NextSettings]_vars

\* Requests that overlap: the dashboard's signal reloads after style changes
\* and the stock detail page's loadData runs after changes of code or chart
\* period. The router shows one page: the mounted page is the dashboard once
\* its mount effect ran, the stock detail page once its loadData started.
NextOverlap ==
  \/ HookMount
  \/ (sdCode = NoCode /\ InitEffect)
  \/ LoadStocksNoSuccess
  \/ LoadPositionsFail("init")
  \/ LoadBalanceFail("init")
  \/ \E style \in TradingStyles : SetTradingStyle(style)
  \/ \E k \in 0..MaxReloads, resp \in {r \in SignalResponses : r.len = 1} : LoadSignalsOk(k, resp)
  \/ \E k \in 0..MaxReloads : LoadSignalsFail(k)
  \/ \E c \in Codes : (initLoads["signals"] = "idle" /\ SdEffect(c))
  \/ \E c \in Codes : SdNavigate(c)
  \/ \E p \in {"D", "W"} : SdSetChartPeriod(p)
  \/ \E k \in 1..MaxLoads, out \in {"ok", "rejected"} : SdDetailSettled(k, out)
  \/ \E k \in 1..MaxLoads : SdAnalyzeSettled(k, "ok", TRUE)
  \/ \E k \in 1..MaxLoads, out \in {"ok", "rejected"} : SdOhlcvSettled(k, out)

SpecOverlap == Init /\ [][NextOverlap]_vars

\* The socket of the mounted Dashboard: its renders, the loads of the mount
\* effect and the position_update pushes.
NextDashboard ==
  \/ HookMount
  \/ InitEffect
  \/ DashRender
  \/ \E s \in 1..MaxSockets : OnOpen(s)
  \/ \E s \in 1..MaxSockets : OnClose(s)
  \/ ServerTake
  \/ \E items \in SingleItems : LoadStocksOk(items)
  \/ LoadStocksFail
  \/ \E src \in LoadSources, resp \in PositionResponses : LoadPositionsOk(src, resp)
  \/ \E src \in LoadSources : LoadPositionsFail(src)
  \/ \E src \in LoadSources, resp \in BalanceResponses : LoadBalanceOk(src, resp)
  \/ \E src \in LoadSources : LoadBalanceFail(src)
  \/ \E s \in 1..MaxSockets, f \in WellFormedFrames({PositionUpdateMsg}) : OnMessage(s, f)

SpecDashboard == Init /\ [][NextDashboard]_vars

\* The order modal inside the trade panel.
NextModal ==
  \/ \E q \in SelectableQuotes : SelectStock(q)
  \/ \E side \in {"BUY", "SELL"} : OpenOrder(side)
  \/ CloseModal
  \/ \E t \in {"MARKET", "LIMIT"} : SetOrderType(t)
  \/ \E n \in QuantityInputs \cup QuickQuantities : SetQuantity(n)
  \/ \E p \in PriceInputs : SetPrice(p)
  \/ \E pct \in QuickPercents : QuickPrice(pct)
  \/ HandleSubmit
  \/ SubmitResolved
  \/ \E rej \in Rejections : SubmitRejected(rej)

SpecModal == Init /\ [][NextModal]_vars

\* Orders placed from the trade panel of the dashboard.
NextOrder ==
  \/ \E q \in {x \in SelectableQuotes : x.price = 72500} : SelectStock(q)
  \/ \E side \in {"BUY", "SELL"} : OpenOrder(side)
  \/ CloseModal
  \/ SetQuantity(0)
  \/ HandleSubmit
  \/ \E resp \in OrderResponses : OrderApiResolved(resp)
  \/ \E rej \in Rejections : OrderApiRejected(rej)
  \/ ToastTimeout
  \/ \E resp \in PositionResponses : LoadPositionsOk("later", resp)
  \/ LoadPositionsFail("later")
  \/ \E resp \in BalanceResponses : LoadBalanceOk("later", resp)
  \/ LoadBalanceFail("later")

SpecOrder == Init /\ [][NextOrder]_vars

\* The backtest page.
NextBacktest ==
  \/ BtMount
  \/ BtUnmount
  \/ RunBacktest
  \/ \E r \in 1..MaxRuns : RunAsyncResolved(r)
  \/ \E r \in 1..MaxRuns : RunAsyncRejected(r)
  \/ \E r \in 1..MaxRuns : FallbackStep(r)
  \/ \E r \in 1..MaxRuns, st \in {"completed", "failed"} : JobEnds(r, st)
  \/ \E r \in 1..MaxRuns : PollTick(r)
  \/ \E r \in 1..MaxRuns, k \in 1..MaxPolls : PollResolved(r, k)
  \/ \E r \in 1..MaxRuns, k \in 1..MaxPolls : PollRejected(r, k)
  \/ \E r \in 1..MaxRuns, ok \in BOOLEAN : ResultResolved(r, ok)
  \/ \E r \in 1..MaxRuns : ResultRejected(r)

SpecBacktest == Init /\ [][NextBacktest]_vars

\* A backtest page that stays mounted: timers fire, every request is
\* answered or fails, and a status request is not rejected forever.
PollResolves    == \E r \in 1..MaxRuns, k \in 1..MaxPolls : PollResolved(r, k)
PollTicks       == \E r \in 1..MaxRuns : PollTick(r)
RunAsyncSettles ==
  \E r \in 1..MaxRuns : RunAsyncResolved(r) \/ RunAsyncRejected(r)
ResultSettles   ==
  \E r \in 1..MaxRuns : ResultRejected(r) \/ \E ok \in BOOLEAN : ResultResolved(r, ok)
FallbackSteps   == \E r \in 1..MaxRuns : FallbackStep(r)

NextRun ==
  \/ BtMount
  \/ RunBacktest
  \/ RunAsyncSettles
  \/ FallbackSteps
  \/ \E r \in 1..MaxRuns, st \in {"completed", "failed"} : JobEnds(r, st)
  \/ PollTicks
  \/ PollResolves
  \/ \E r \in 1..MaxRuns, k \in 1..MaxPolls : PollRejected(r, k)
  \/ ResultSettles

SpecRunFair ==
  /\ Init /\ [][NextRun]_vars
  /\ WF_vars(RunAsyncSettles)
  /\ WF_vars(FallbackSteps)
  /\ WF_vars(PollTicks)
  /\ SF_vars(PollResolves)
  /\ WF_vars(ResultSettles)

\* The two polling timers: the backtest page's status interval and the
\* AutoTraderPanel's.
NextPolling ==
  \/ BtMount
  \/ BtUnmount
  \/ RunBacktest
  \/ \E r \in 1..MaxRuns : RunAsyncResolved(r)
  \/ \E r \in 1..MaxRuns, st \in {"completed", "failed"} : JobEnds(r, st)
  \/ \E r \in 1..MaxRuns : PollTick(r)
  \/ \E r \in 1..MaxRuns, k \in 1..MaxPolls : PollResolved(r, k)
  \/ \E r \in 1..MaxRuns, k \in 1..MaxPolls : PollRejected(r, k)
  \/ \E r \in 1..MaxRuns : ResultResolved(r, TRUE)
  \/ AtMount
  \/ AtUnmount
  \/ AtTick
  \/ \E outcome \in {"running", "stopped", "rejected", "unsuccessful"} : AtFetchSettled(outcome)

SpecPolling == Init /\ [][NextPolling]_vars

\* The hook under any consumer: mounts, renders that re-run the effect, the
\* returned functions, and the events of the sockets it created.
NextWS ==
  \/ HookMount
  \/ HookUnmount
  \/ EffectRerun
  \/ Connect
  \/ Disconnect
  \/ \E s \in 1..MaxSockets : OnOpen(s)
  \/ \E s \in 1..MaxSockets : PeerClosing(s)
  \/ \E s \in 1..MaxSockets : OnClose(s)
  \/ \E x \in CodeArgs : Subscribe(x)
  \/ \E x \in CodeArgs : Unsubscribe(x)
  \/ \E x \in ChannelArgs : SubscribeChannel(x)
  \/ ServerTake
  \/ \E s \in 1..MaxSockets, f \in WellFormedFrames({OtherMsg}) \cup {MalformedFrame} :
        OnMessage(s, f)

SpecWS == Init /\ [][NextWS]_vars

(***************************************************************************)
(* Claims                                                                  *)
(***************************************************************************)
\* The step delivered the parsed message m to the mounted dashboard.
Delivered(type) ==
  /\ ev'.op = "message"
  /\ mounted
  /\ JsonParses(ev'.arg)
  /\ JsonParse(ev'.arg).type = type

\* The indexes of the stock list whose entry carries the given code.
IndexesOf(list, code) == {i \in DOMAIN list : list[i].stock_code = code}
FirstOf(S) == CHOOSE k \in S : \A j \in S : k <= j

C1_Post(d) ==
  IndexesOf(stocks, d.stock_code) # {} =>
    LET i == FirstOf(IndexesOf(stocks, d.stock_code))
    IN  /\ Len(stocks') = Len(stocks)
        /\ DOMAIN stocks'[i] = (DOMAIN stocks[i]) \cup (DOMAIN d)
        /\ \A f \in DOMAIN d : stocks'[i][f] = d[f]
        /\ \A f \in (DOMAIN stocks[i]) \ (DOMAIN d) : stocks'[i][f] = stocks[i][f]
        /\ \A j \in (DOMAIN stocks) \ {i} : stocks'[j] = stocks[j]

\* C1: a stock_update whose data.stock_code is the code of an entry of the
\* stock list patches that entry (the one findIndex selects, the first with
\* that code): afterwards it carries every field of message.data, its other
\* fields keep their value, and every other entry, the length and the order
\* of the list are unchanged.
C1_StockUpdatePatchesByCode ==
  [][Delivered("stock_update") => C1_Post(JsonParse(ev'.arg).data)]_vars

\* C1 witness: a stock_update carrying only a price has just patched the
\* second entry of a two-entry list whose first entry has another code.
C1_Witness ==
  /\ ev.op = "message"
  /\ JsonParse(ev.arg).type = "stock_update"
  /\ DOMAIN JsonParse(ev.arg).data = {"stock_code", "price"}
  /\ Len(stocks) = 2
  /\ stocks[1].stock_code # JsonParse(ev.arg).data.stock_code
  /\ stocks[2].stock_code = JsonParse(ev.arg).data.stock_code
  /\ stocks[2].price = JsonParse(ev.arg).data.price
  /\ stocks[2].price # stocks[1].price

C2_Post(m) ==
  Len(signals) <= SignalCap =>
    /\ Len(signals') <= SignalCap
    /\ Len(signals') = (IF Len(signals) < SignalCap THEN Len(signals) + 1 ELSE SignalCap)
    /\ signals'[1] = m
    /\ \A k \in 2..Len(signals') : signals'[k] = signals[k - 1]

\* C2: a signal_alert received with at most 10 entries in the signal list
\* leaves at most 10 entries, the received alert at index 0 and after it the
\* previous entries in their previous order, the oldest dropped when the
\* list was full; so the list never exceeds 10 entries under signal_alert
\* messages and dismissals.
C2_SignalListCapped ==
  [][ /\ Len(signals) <= SignalCap
      /\ Len(signals') <= SignalCap
      /\ Delivered("signal_alert") => C2_Post(JsonParse(ev'.arg)) ]_vars

\* C2 witness: the list is full and the alert just received is at its head,
\* in front of a different alert.
C2_Witness ==
  /\ ev.op = "message"
  /\ JsonParse(ev.arg).type = "signal_alert"
  /\ Len(signals) = SignalCap
  /\ signals[1] = JsonParse(ev.arg)
  /\ signals[2] # signals[1]
  /\ signals[SignalCap] = signals[1]

\* The step ran handleSubmit (a click on the enabled submit button).
Submitted == ev'.op = "submit" /\ ModalShown /\ ~isSubmitting
\* The step called the injected onSubmit.
OnSubmitCalled == ev'.arg.called /\ inflight' /\ ~inflight

\* C3: a submit with quantity <= 0 does not call onSubmit, sets the
\* quantity validation message, leaves isSubmitting false and the modal
\* open, for both order types and whatever the fields were edited to.
C3_NoSubmitWithoutQuantity ==
  [][(Submitted /\ quantity <= 0) =>
       /\ ~OnSubmitCalled
       /\ inflight' = inflight
       /\ error' = QuantityError
       /\ ~isSubmitting'
       /\ showOrderModal']_vars

\* C3 witness: a LIMIT order was just submitted with quantity <= 0 after an
\* edit, and the modal shows the quantity message.
C3_Witness ==
  /\ ev.op = "submit"
  /\ ~ev.arg.called
  /\ quantity <= 0
  /\ orderType = "LIMIT"
  /\ error = QuantityError
  /\ showOrderModal
  /\ ~isSubmitting
  /\ ~inflight

\* C4: a submit of a LIMIT order with price <= 0 does not call onSubmit and
\* sets an error message (the price message when the quantity is valid); a
\* submit of a MARKET order with a valid quantity calls onSubmit whatever
\* the price field holds, with price null in the request.
C4_LimitNeedsPrice ==
  [][ /\ (Submitted /\ orderType = "LIMIT" /\ price <= 0) =>
            /\ ~OnSubmitCalled
            /\ inflight' = inflight
            /\ error' # NoError
            /\ quantity > 0 => error' = PriceError
      /\ (Submitted /\ orderType = "MARKET" /\ price <= 0 /\ quantity > 0) =>
            /\ OnSubmitCalled
            /\ ev'.arg.order[1].price = <<>>
            /\ error' = NoError ]_vars

\* C4 witness: a LIMIT order with a valid quantity and price <= 0 was just
\* submitted and blocked with the price message.
C4_Witness ==
  /\ ev.op = "submit"
  /\ ~ev.arg.called
  /\ orderType = "LIMIT"
  /\ price <= 0
  /\ quantity > 0
  /\ error = PriceError
  /\ ~inflight

\* C5: every step that takes isOpen from false to true with a quote leaves
\* quantity 1, price the quote's price, the order type MARKET and error
\* null, whatever the earlier session left in those fields.
C5_OpenResetsFields ==
  [][(~showOrderModal /\ showOrderModal' /\ quote' # NoQuote) =>
       /\ quantity' = 1
       /\ price' = quote'.price
       /\ orderType' = "MARKET"
       /\ error' = NoError]_vars

\* C5 witness: the modal was just reopened while the submit of an earlier
\* session is still in flight.
C5_Witness ==
  /\ ev.op = "openOrder"
  /\ showOrderModal
  /\ isSubmitting
  /\ inflight
  /\ quantity = 1

\* C6: a submit that passes validation sets isSubmitting and calls
\* onSubmit once, with the request built from the fields; when onSubmit
\* resolves onClose is called and no error is set; when it rejects onClose
\* is not called and error is the rejection's message (the fallback text
\* for a rejection that is no Error); either way isSubmitting is false
\* afterwards. A submit is in flight only while isSubmitting holds.
C6_SubmitStateMachine ==
  [][ /\ inflight => isSubmitting
      /\ inflight' => isSubmitting'
      /\ (Submitted /\ quantity > 0 /\ (orderType = "LIMIT" => price > 0)) =>
            /\ OnSubmitCalled
            /\ isSubmitting'
            /\ error' = NoError
            /\ showOrderModal'
            /\ ev'.arg.order = <<[stock_code |-> quote.stock_code,
                                quantity |-> quantity,
                                price |-> IF orderType = "LIMIT" THEN <<price>> ELSE <<>>,
                                order_type |-> orderType]>>
      /\ (ev'.op = "resolved" /\ inflight) =>
            /\ ~showOrderModal'
            /\ error' = error
            /\ (showOrderModal => error' = NoError)
            /\ ~isSubmitting'
            /\ ~inflight'
      /\ (ev'.op = "rejected" /\ inflight) =>
            /\ showOrderModal' = showOrderModal
            /\ ev'.arg.isError => error' = ev'.arg.message
            /\ ~ev'.arg.isError => error' = DefaultOrderError
            /\ error' # NoError
            /\ ~isSubmitting'
            /\ ~inflight' ]_vars

\* C6 witness: onSubmit just rejected with an Error; the modal is still
\* open, shows the rejection's message and is no longer submitting.
C6_Witness ==
  /\ ev.op = "rejected"
  /\ ev.arg.isError
  /\ showOrderModal
  /\ error = ev.arg.message
  /\ ~isSubmitting
  /\ ~inflight

\* The operations that only send.
SendOps == {"subscribe", "unsubscribe", "subscribeChannel"}

\* The socket wsRef.current holds is OPEN.
CurrentOpen == wsRef # 0 /\ socks[wsRef] = "OPEN"

\* C7 (as claimed): once a socket's onclose has fired, isConnected is false
\* and a subscribe / unsubscribe / subscribeChannel call sends nothing on
\* any socket until connect() is invoked again and the new socket opens;
\* stated for the calls made right after the onclose, before any connect().
C7_NoSendAfterClose ==
  [][ /\ (ev.op = "close" /\ mounted) => ~isConnected
      /\ (ev.op = "close" /\ ev'.op \in SendOps) => sent' = sent ]_vars

\* C8 (as claimed): at most one socket the hook instance created is
\* CONNECTING or OPEN.
C8_AtMostOneLiveSocket ==
  Cardinality({s \in DOMAIN socks : socks[s] \in {"CONNECTING", "OPEN"}}) <= 1

\* C9 (as claimed): after the current socket has closed, until the component
\* unmounts or connect() runs (called by the consumer or by the effect), no
\* socket is created and the hook stays disconnected; stated for the step
\* that follows the onclose of the current socket.
C9_NoReconnectAfterClose ==
  [][ (/\ ev.op = "close"
       /\ mounted
       /\ ev.arg = wsRef
       /\ ev'.op \notin {"connect", "rerun", "mount", "unmount"}) =>
          /\ Len(socks') = Len(socks)
          /\ ~isConnected
          /\ ~isConnected' ]_vars

\* The frame a send-only call must produce on the open current socket.
C10_Frame(op, x) ==
  [sock  |-> wsRef,
   frame |-> [wellFormed |-> TRUE,
              data |-> IF op = "subscribeChannel"
                       THEN [type |-> "subscribe_channel",
                             channels |-> IF x.isArray THEN x.val ELSE <<x.val>>]
                       ELSE [type |-> op,
                             stock_codes |-> IF x.isArray THEN x.val ELSE <<x.val>>]]]

\* C10: subscribe, unsubscribe and subscribeChannel only send: called while
\* the current socket is absent, CONNECTING, CLOSING or CLOSED they send
\* nothing and change no hook state; called while it is OPEN they send
\* exactly one JSON frame on it, with the matching type and the codes or
\* channels as a list. Nothing is queued: a socket that opens sends at most
\* the onConnect callback's own subscribe_channel frame, and no other
\* operation of the hook sends.
C10_SendOnlyNoQueue ==
  [][ /\ ev'.op \in SendOps =>
            /\ UNCHANGED <<mounted, socks, wsRef, isConnected, lastMessage>>
            /\ ~CurrentOpen => sent' = sent
            /\ CurrentOpen => sent' = Append(sent, C10_Frame(ev'.op, ev'.arg))
      /\ ev'.op = "open" =>
            \/ sent' = sent
            \/ /\ wsRef # 0
               /\ socks'[wsRef] = "OPEN"
               /\ sent' = Append(sent, C10_Frame("subscribeChannel", OnConnectArg))
      /\ ev'.op \in {"mount", "unmount", "rerun", "connect", "disconnect",
                      "closing", "close", "message"} => sent' = sent ]_vars

\* C10 witness: subscribe was just called with a single code while the
\* current socket was CONNECTING: nothing was sent and the socket is as it was.
C10_Witness ==
  /\ ev.op = "subscribe"
  /\ ev.rs = "CONNECTING"
  /\ ~ev.arg.isArray
  /\ wsRef # 0
  /\ socks[wsRef] = "CONNECTING"
  /\ sent = <<>>
  /\ ~isConnected

\* C11: an onmessage whose payload is not valid JSON leaves lastMessage, the
\* consumer's state (onMessage is not invoked), isConnected, the socket
\* reference and every socket's readyState unchanged and sends nothing; the
\* socket it arrived on is still OPEN afterwards, and a well-formed message
\* that arrives next on that socket is delivered to lastMessage.
C11_MalformedIgnored ==
  [][ /\ (ev'.op = "message" /\ ~JsonParses(ev'.arg)) =>
            /\ UNCHANGED <<lastMessage, isConnected, socks, wsRef, sent, mounted>>
            /\ UNCHANGED dashVars
            /\ socks'[ev'.sock] = "OPEN"
      /\ (/\ ev.op = "message" /\ ~JsonParses(ev.arg)
          /\ ev'.op = "message" /\ ev'.sock = ev.sock /\ JsonParses(ev'.arg)
          /\ mounted) => lastMessage' = JsonParse(ev'.arg) ]_vars

\* C11 witness: a malformed payload just arrived on the open current socket
\* of a connected hook whose lastMessage holds an earlier message.
C11_Witness ==
  /\ ev.op = "message"
  /\ ~JsonParses(ev.arg)
  /\ mounted
  /\ isConnected
  /\ ev.sock = wsRef
  /\ socks[wsRef] = "OPEN"
  /\ lastMessage = OtherMsg

\* C12 (as claimed): while the Dashboard is mounted the hook has created
\* exactly one socket, however often the component rendered.
C12_OneSocketPerMount == mounted => Len(socks) = 1

\* C13 (as claimed): once the consuming component has unmounted, the socket
\* reference is null and no socket the hook created is CONNECTING or OPEN.
C13_UnmountClosesAll ==
  ~mounted =>
     /\ wsRef = 0
     /\ \A s \in DOMAIN socks : socks[s] \notin {"CONNECTING", "OPEN"}

\* C14: dismissing the entry at index i of a signal list of length n leaves
\* a list of length n - 1: the entries before i keep their position, the
\* entries after i move up by one, and nothing else of the list changes.
C14_DismissRemovesExactlyOne ==
  [][(ev'.op = "dismiss" /\ ev'.arg \in DOMAIN signals) =>
       /\ Len(signals') = Len(signals) - 1
       /\ \A k \in 1..(ev'.arg - 1) : signals'[k] = signals[k]
       /\ \A k \in ev'.arg..Len(signals') : signals'[k] = signals[k + 1]
       /\ UNCHANGED <<stocks, positions, balance>>]_vars

\* C14 witness: the middle entry of a list was just dismissed; an entry
\* equal to it and a different one remain, the different one in front.
C14_Witness ==
  /\ ev.op = "dismiss"
  /\ ev.arg = 2
  /\ Len(signals) = 3
  /\ signals[1] # signals[2]
  /\ signals[2] = signals[3]

\* The example scenario: the list holds 005930 at price 72500 (as the first
\* entry with that code) and a stock_update for 005930 with price 73000 is
\* delivered.
C15_Scenario ==
  /\ Delivered("stock_update")
  /\ JsonParse(ev'.arg).data.stock_code = "005930"
  /\ "price" \in DOMAIN JsonParse(ev'.arg).data
  /\ JsonParse(ev'.arg).data.price = 73000
  /\ IndexesOf(stocks, "005930") # {}
  /\ stocks[FirstOf(IndexesOf(stocks, "005930"))].price = 72500

\* C15 (as claimed): in the example scenario the stored price is 73000 and
\* change is recomputed from the new price against prev_close.
C15_ChangeRecomputed ==
  [][C15_Scenario =>
       LET i == FirstOf(IndexesOf(stocks, "005930"))
       IN  /\ stocks'[i].price = 73000
           /\ stocks'[i].change = stocks'[i].price - stocks'[i].prev_close]_vars

\* C15 (amended): in the example scenario the stored price is 73000; change
\* is the message's change when the message carries one and keeps its
\* previous value otherwise, and prev_close is as it was: nothing is
\* recomputed.
C15_ChangeMergedOnly ==
  [][C15_Scenario =>
       LET i == FirstOf(IndexesOf(stocks, "005930"))
           d == JsonParse(ev'.arg).data
       IN  /\ stocks'[i].price = 73000
           /\ stocks'[i].change = (IF "change" \in DOMAIN d THEN d.change
                                   ELSE stocks[i].change)
           /\ stocks'[i].prev_close = stocks[i].prev_close]_vars

\* C15 witness: a stock_update carrying only the price 73000 was just
\* delivered for 005930; the quote shows 73000 with the change of the
\* earlier price, which is not 73000 - prev_close.
C15_Witness ==
  /\ ev.op = "message"
  /\ JsonParse(ev.arg).type = "stock_update"
  /\ JsonParse(ev.arg).data = [stock_code |-> "005930", price |-> 73000]
  /\ Len(stocks) >= 1
  /\ stocks[1] = [stock_code |-> "005930", price |-> 73000, change |-> 1500,
                  prev_close |-> 71000]

\* C16: a position_update leaves the positions list, the stocks, the
\* signals and the balance as they are and issues exactly one getPositions
\* request; the positions list changes only in a step where a getPositions
\* request resolves with success (to the mapped response items, whatever
\* the list held) or rejects (to the fallback list).
C16_PositionUpdateRefetches ==
  [][ /\ Delivered("position_update") =>
            /\ positions' = positions
            /\ posPending' = posPending + 1
            /\ UNCHANGED <<stocks, signals, balance, balPending, orderSuccess, orderArgs>>
      /\ positions' # positions =>
            \/ /\ ev'.op = "loadPositionsOk"
               /\ ev'.arg.success
               /\ Len(positions') = (IF ev'.arg.hasItems THEN Len(ev'.arg.items) ELSE 0)
               /\ \A k \in DOMAIN positions' :
                     /\ positions'[k].position_id = ev'.arg.items[k].stock_code
                     /\ positions'[k].stock_code = ev'.arg.items[k].stock_code
                     /\ positions'[k].quantity = ev'.arg.items[k].quantity
                     /\ positions'[k].entry_price = ev'.arg.items[k].avg_price
                     /\ positions'[k].status = "OPEN"
            \/ /\ ev'.op = "loadPositionsFail"
               /\ positions' = MockPositions ]_vars

\* C16 witness: a position_update was just delivered while the list held
\* the fallback entry; the list is as it was and one request is in flight.
C16_Witness ==
  /\ ev.op = "message"
  /\ JsonParse(ev.arg).type = "position_update"
  /\ mounted
  /\ initLoads["positions"] = "settled"
  /\ positions = MockPositions
  /\ posPending = 1

\* C17: when the order call resolves with status FILLED or SUBMITTED the
\* toast is set, one positions re-fetch and one balance re-fetch are issued
\* and the call resolves (the modal closes, no error is set); a re-fetch
\* that fails later touches neither the toast nor the modal. For any other
\* status, or a rejected call, the toast and the re-fetch counts stay as
\* they were and the call rejects: the modal stays as it is and shows a
\* message, the response's message or the rejection's when there is one.
C17_OrderSubmitOutcomes ==
  [][ /\ (ev'.op = "orderResolved" /\ ev'.arg.status \in {"FILLED", "SUBMITTED"}) =>
            /\ orderSuccess' # NoToast
            /\ orderSuccess'.side = orderArgs.side
            /\ posPending' = posPending + 1
            /\ balPending' = balPending + 1
            /\ ~inflight' /\ ~isSubmitting' /\ ~showOrderModal'
            /\ error' = error
      /\ (ev'.op \in {"loadPositionsFail", "loadBalanceFail"}) =>
            /\ orderSuccess' = orderSuccess
            /\ UNCHANGED modalVars
      /\ (\/ ev'.op = "orderResolved" /\ ev'.arg.status \notin {"FILLED", "SUBMITTED"}
          \/ ev'.op = "orderRejected") =>
            /\ orderSuccess' = orderSuccess
            /\ posPending' = posPending
            /\ balPending' = balPending
            /\ ~inflight' /\ ~isSubmitting'
            /\ showOrderModal' = showOrderModal
            /\ error' \notin {NoError, ""}
            /\ (ev'.op = "orderResolved" /\ ev'.arg.message # "") => error' = ev'.arg.message
            /\ (ev'.op = "orderRejected" /\ ev'.arg.isError) => error' = ev'.arg.message ]_vars

\* C17 witness: a SELL order was just answered SUBMITTED: the toast for it
\* is shown, both re-fetches are in flight and the modal has closed.
C17_Witness ==
  /\ ev.op = "orderResolved"
  /\ ev.arg.status = "SUBMITTED"
  /\ orderSuccess = [side |-> "SELL", outcome |-> "accepted"]
  /\ posPending = 1
  /\ balPending = 1
  /\ ~showOrderModal
  /\ ~inflight
  /\ error = NoError

\* C18 (as claimed): for every run, getResult is called at most once, and
\* never for a job that failed.
C18_ResultFetchedOnce ==
  \A r \in DOMAIN btRuns :
     /\ btRuns[r].calls <= 1
     /\ btRuns[r].job = "failed" => btRuns[r].calls = 0

\* C19: a run whose runAsync rejected never starts a status interval and
\* sends no status or result request; each iteration of its fallback loop
\* sets progress to the next of 0, 5, ..., 100, and the iteration that sets
\* 100 also stores the mock result and clears isRunning.
C19_FallbackAfterRejection ==
  [][ /\ \A r \in DOMAIN btRuns' :
            btRuns'[r].sub = "rejected" =>
               /\ ~btRuns'[r].timer
               /\ btRuns'[r].polls = <<>>
               /\ btRuns'[r].calls = 0
      /\ (ev'.op = "runAsyncRejected" /\ btMounted) =>
            /\ isRunning' = isRunning
            /\ result' = result
            /\ btRuns'[ev'.arg].fb = 0
      /\ (ev'.op = "fallbackStep" /\ btMounted) =>
            /\ btRuns[ev'.arg].sub = "rejected"
            /\ progress' = btRuns[ev'.arg].fb
            /\ btRuns'[ev'.arg].fb = btRuns[ev'.arg].fb + 5
            /\ progress' \in {5 * n : n \in 0..20}
            /\ progress' = 100 => (result' = "mock" /\ ~isRunning')
            /\ progress' < 100 => (result' = result /\ isRunning' = isRunning) ]_vars

\* C19 witness: the fallback loop of a rejected submission just finished:
\* progress 100, the mock result, not running, and no interval.
C19_Witness ==
  /\ ev.op = "fallbackStep"
  /\ btMounted
  /\ btRuns[ev.arg].sub = "rejected"
  /\ ~btRuns[ev.arg].timer
  /\ progress = 100
  /\ result = "mock"
  /\ ~isRunning

\* C20 (as claimed): neither interval fires once its component has
\* unmounted.
C20_NoTickAfterUnmount ==
  [][ /\ ev'.op = "atTick" => atMounted
      /\ ev'.op = "pollTick" => btMounted ]_vars

\* C29 (as claimed): a modal that was just reopened while the submit of an
\* earlier session is still in flight does not show isSubmitting, and the
\* completion of that submit neither closes it nor sets an error in it.
C29_SubmitStaysInSession ==
  [][ (ev.op = "openOrder" /\ inflight /\ showOrderModal) =>
         /\ ~isSubmitting
         /\ ev'.op = "resolved" => showOrderModal'
         /\ ev'.op = "rejected" => error' = error ]_vars

\* C26 (as claimed): the dashboard's signal list never holds more than 10
\* entries, whatever loadSignals stored.
C26_SignalListAtMostCap == Len(signals) <= SignalCap

\* C25: the mount effect issues the four loads together (none is settled
\* while another is not yet issued), loading is false only when all four
\* have settled, and once they are issued loading does become false, whatever
\* the outcome of each.
C25_LoadingEndsAfterAllFour ==
  /\ [](\A a, b \in LoadNames : initLoads[a] = "settled" => initLoads[b] # "idle")
  /\ [](~loading => AllSettled(initLoads))
  /\ ((\A n \in LoadNames : initLoads[n] = "pending") ~> ~loading)

\* C25 witness: the four loads have settled with different outcomes (the
\* stock request rejected, the signal request answered) and loading is off.
C25_Witness ==
  /\ mounted
  /\ ~loading
  /\ AllSettled(initLoads)
  /\ stocks = MockStocks
  /\ Len(signals) = 1
  /\ ev.op = "loadBalanceFail"

\* C23 (as claimed): right after a status request rejected, with no user
\* action, mount or push in between, the client sends no further request to
\* the same endpoint: neither the backtest status interval nor the
\* AutoTraderPanel interval calls getStatus again.
C23_NoCallAfterRejection ==
  [][ /\ ev.op = "pollRejected" => ev'.op # "pollTick"
      /\ (ev.op = "atFetchSettled" /\ ev.arg = "rejected") => ev'.op # "atTick" ]_vars

\* C30 (as claimed): once a status response has reported the job completed
\* or failed, isRunning becomes false, whatever the later calls do.
C30_RunTerminates ==
  (ev.op = "pollResolved" /\ ev.arg.status \in {"completed", "failed"}) ~> ~isRunning

\* C27 (as claimed): the onclose of a socket that is no longer the current
\* one does not turn isConnected off while the current socket is open.
C27_StaleCloseKeepsConnected ==
  [][ (ev'.op = "close" /\ isConnected /\ RefOpen(socks', wsRef')) => isConnected' ]_vars

\* A frame of the given type is on its way to the server.
C28_Sending(type) ==
  \E i \in DOMAIN sent : JsonParse(sent[i].frame).type = type

C21_FallbackPopulatesAll ==
  (mounted /\ sdCode # NoCode /\ ~sdLoading) =>
     /\ sdQuote # SdNull
     /\ sdAnalysis # SdNull
     /\ sdChart # SdEmpty
     /\ sdNews # SdEmpty

\* C24 (as claimed): handleSave sends updateAll only when the indicator
\* weights add up to exactly 100.
C24_SaveOnlyAtHundred ==
  [][ ev'.op = "save" => TotalWeight(weights) = 100 ]_vars

\* s continues q: every request in flight before is still in flight.
C22_Extends(q, s) == Len(s) = Len(q) + 1 /\ SubSeq(s, 1, Len(q)) = q

\* C22: issuing a newer request cancels none that is in flight, and every
\* answer is stored when it arrives, whatever was requested since: the
\* signals of the style the request was sent with, the quote of its code,
\* the chart of its code and period.
C22_NoRequestDiscarded ==
  [][ /\ (ev'.op = "setStyle" /\ ~loading) => C22_Extends(sigPending, sigPending')
      /\ ev'.op \in {"sdNavigate", "sdPeriod"} => C22_Extends(sdLoads, sdLoads')
      /\ (ev'.op = "loadSignalsOk" /\ ev'.arg.resp.success /\ ev'.arg.resp.hasData) =>
            signals' = MapSignals(TopSignals(ev'.arg.style, ev'.arg.resp.len))
      /\ ev'.op = "loadSignalsFail" => signals' = FallbackSignals
      /\ (ev'.op = "sdDetail" /\ ev'.arg.out = "ok") => sdQuote' = ServerOf(ev'.arg.code)
      /\ (ev'.op = "sdAnalyze" /\ ev'.arg.out = "ok") => sdAnalysis' = ServerOf(ev'.arg.code)
      /\ (ev'.op = "sdOhlcv" /\ ev'.arg.out = "ok") =>
            sdChart' = ServerChart(ev'.arg.code, ev'.arg.period) ]_vars

\* C22 witness: two reloads overlapped and the answer to the style selected
\* earlier arrived last: nothing is in flight and the list shown is the one
\* of a style that is no longer selected.
C22_Witness ==
  /\ mounted
  /\ ev.op = "loadSignalsOk"
  /\ ev.arg.req > 0
  /\ ev.arg.style # tradingStyle
  /\ sigPending = <<>>
  /\ signals # <<>>
  /\ signals[1].stock_code = StyleCode(ev.arg.style)
  /\ signals[1].stock_code # StyleCode(tradingStyle)

\* The same on the stock detail page: nothing is in flight and the chart
\* shown is the one of a period that is no longer selected.
C22_WitnessChart ==
  /\ mounted
  /\ ev.op = "sdOhlcv"
  /\ sdLoads = <<>>
  /\ sdChart.src = "server"
  /\ sdChart.code = sdCode
  /\ sdChart.period # chartPeriod

====
